---- MODULE Spec2Model ----
(***************************************************************************)
(* The Ollama image captioner: the batch captioning pipeline and the       *)
(* review grid.                                                            *)
(*   src/src/workers.py     CaptionWorker.run (the batch worker thread),    *)
(*                          ImageLoader.run (the directory scan thread)     *)
(*   src/src/core_logic.py  encode_image_to_base64, generate_caption_api,   *)
(*                          get_thumbnail_path, ensure_thumbnail,           *)
(*                          extract_comfy_prompt                            *)
(*   src/src/widgets.py     CaptionItem.extract_metadata_prompt             *)
(*   src/captionWithOllama.py  generate_caption, main (the command line)    *)
(*   src/gui_captioner.py   OllamaCaptionerApp (toggle_processing,          *)
(*                          start_processing, update_progress, on_finished, *)
(*                          load_images_to_grid, start_incremental_load,    *)
(*                          load_next_image_batch, delete_image_item,       *)
(*                          save_all_captions), CaptionItem.save_caption    *)
(*                                                                         *)
(* Strings (file names, file contents, captions) are tuples of one-char    *)
(* strings, so that suffix tests, strip(), startswith() and newline        *)
(* translation are computed character by character as the code does.       *)
(* Fixed UI messages are one-element tuples.                               *)
(*                                                                         *)
(* Environment: the directory is on a POSIX file system; opening, reading, *)
(* writing and removing a file can raise, which the actions take as        *)
(* inputs; the inference server answers or fails as it likes.  Nothing but *)
(* the program changes the directory while a batch runs; the directory can *)
(* be removed as a whole while a scan thread is starting.  An exception    *)
(* that leaves run() ends the worker thread (pc = "crashed"); an exception *)
(* that leaves a slot of the UI thread ends the application, as PyQt6 has  *)
(* it (app = "aborted").  Image.save removes the file it created when the  *)
(* encoding fails.                                                         *)
(*                                                                         *)
(* Specifications: Spec (batch runs), SpecPercent (the progress            *)
(* percentage for totals up to MaxTotal), SpecGrid (grid loads and scans), *)
(* SpecDelete (deletions from a loaded grid), SpecThreads (grid and batch  *)
(* together), SpecLoad (the incremental load, with fairness), SpecSave     *)
(* (batch runs beside a loaded grid whose editors are saved), SpecRun (one  *)
(* batch worker, with fairness), and SpecClient, SpecExtract, SpecCli for   *)
(* the Caption Client, extract_comfy_prompt and main called alone on       *)
(* bounded sets of inputs.                                                 *)
(***************************************************************************)
EXTENDS Integers, Sequences, FiniteSets, TLC

VARIABLES
    dirExists,      \* the configured directory exists (environment)
    fs,             \* directory content: file name -> [exists, data]
    is_processing,  \* OllamaCaptionerApp.is_processing
    btn_enabled,    \* btn_start.isEnabled()
    btn_text,       \* btn_start.text()
    status_label,   \* status_label.text()
    progress_bar,   \* progress_bar.value()
    image_items,    \* OllamaCaptionerApp.image_items: path -> caption_edit text
    pc,             \* position of the CaptionWorker thread in run()
    overwrite,      \* worker.config['overwrite']
    stop_requested, \* worker.stop_requested
    images,         \* run(): the sorted scan result
    i,              \* run(): loop index (0-based, as enumerate gives it)
    caption,        \* run(): the local variable caption
    sigq,           \* queued signal deliveries from the worker to the UI thread
    trace,          \* history: everything the current run did, in order
    runNo,          \* history: number of batch runs started
    startFs,        \* history: fs when the current run was started
    prevWrote,      \* history: images whose caption the previous run persisted
    stopAt,         \* history: index of the entry in progress when the stop
                    \* was requested, -1 if none was
    total,          \* run(): total = len(images), for the progress values alone
    percent,        \* the percentage of the last progress_update, -1 if none
    prevPercent,    \* history: the percentage emitted before that one
    dirWritable,    \* files and directories can be created in the directory
                    \* (environment)
    thumb_dir,      \* the .thumbnails subdirectory exists
    thumbs,         \* .thumbnails: cache file name -> [exists, data]
    app,            \* "running"; "aborted" once an exception has left a slot
    dir_input,      \* dir_input.text()
    progress_max,   \* progress_bar.maximum()
    loader_pc,      \* position of the ImageLoader thread in run()
    loader_images,  \* ImageLoader.run(): the local variable images
    loadq,          \* queued finished(list) deliveries from loader threads
    loading_queue,  \* OllamaCaptionerApp.loading_queue
    load_timer,     \* load_timer.isActive()
    strayWorkers,   \* history: CaptionWorker threads still running that
                    \* self.worker no longer refers to
    strayLoaders,   \* history: the same for ImageLoader threads
    loads,          \* history: number of calls of load_images_to_grid
    scans,          \* history: the scans made by the loader threads
    gridFrom,       \* history: the scan result the grid is populated from
    lastTick,       \* history: what the last timer tick did
    thumbLog,       \* history: per image, its last two ensure_thumbnail calls
    lastDelete,     \* history: the last confirmed deletion
    callIn,         \* a call of a function taken alone: which, and its inputs
    callOut         \* what that call returned and did

vars == <<dirExists, fs, is_processing, btn_enabled, btn_text, status_label,
          progress_bar, image_items, pc, overwrite, stop_requested, images, i,
          caption, sigq, trace, runNo, startFs, prevWrote, stopAt,
          total, percent, prevPercent, dirWritable, thumb_dir, thumbs, app,
          dir_input, progress_max, loader_pc, loader_images, loadq,
          loading_queue, load_timer, strayWorkers, strayLoaders, loads, scans,
          gridFrom, lastTick, thumbLog, lastDelete, callIn,
          callOut>>

\* The variables of the progress computation taken alone.
percentVars == <<total, percent, prevPercent>>

\* The variables of a function called alone.
callVars == <<callIn, callOut>>

\* The thumbnail cache, and the variables of the review grid and its loader.
cacheVars == <<dirWritable, thumb_dir, thumbs, thumbLog>>

loaderVars == <<loader_pc, loader_images, loadq, strayLoaders, loads, scans>>

gridVars == <<cacheVars, loaderVars, app, dir_input, progress_max,
              loading_queue, load_timer, gridFrom, lastTick, lastDelete>>

uiVars == <<is_processing, btn_enabled, btn_text, status_label, progress_bar,
            image_items>>

(***************************************************************************)
(* Bounds                                                                  *)
(***************************************************************************)
\* The directory holds at most MaxImages of the image files of AllImageNames.
MaxImages == 2
\* Number of batch runs the user starts.
MaxRuns == 2
\* The worker runs ahead of the UI thread by at most MaxQueued queued signals.
MaxQueued == 1

(***************************************************************************)
(* Text                                                                    *)
(***************************************************************************)
ERROR_PREFIX == <<"[", "E", "R", "R", "O", "R", "]">>

ENCODING_FAILED ==
    ERROR_PREFIX \o <<" ", "I", "m", "a", "g", "e", " ", "e", "n", "c", "o",
                      "d", "i", "n", "g", " ", "f", "a", "i", "l", "e", "d", ".">>

\* str.startswith
StartsWith(s, p) == Len(s) >= Len(p) /\ SubSeq(s, 1, Len(p)) = p

\* str.strip() removes leading and trailing whitespace
IsSpace(c) == c \in {" ", "\t", "\n", "\r", "\f"}

RECURSIVE LStrip(_)
LStrip(s) == IF s # <<>> /\ IsSpace(Head(s)) THEN LStrip(Tail(s)) ELSE s

RECURSIVE RStrip(_)
RStrip(s) ==
    IF s # <<>> /\ IsSpace(s[Len(s)]) THEN RStrip(SubSeq(s, 1, Len(s) - 1)) ELSE s

Strip(s) == RStrip(LStrip(s))

\* str.lower() on the characters that occur in file names
LowerChar(c) ==
    CASE c = "B" -> "b"
      [] c = "G" -> "g"
      [] c = "N" -> "n"
      [] c = "P" -> "p"
      [] OTHER -> c

Lower(s) == [k \in 1..Len(s) |-> LowerChar(s[k])]

\* Code point of a file-name character (str comparison is by code point).
Ord(c) ==
    CASE c = "." -> 46
      [] c = "B" -> 66
      [] c = "G" -> 71
      [] c = "N" -> 78
      [] c = "P" -> 80
      [] c = "a" -> 97
      [] c = "b" -> 98
      [] c = "c" -> 99
      [] c = "e" -> 101
      [] c = "g" -> 103
      [] c = "j" -> 106
      [] c = "n" -> 110
      [] c = "p" -> 112
      [] c = "t" -> 116
      [] c = "w" -> 119
      [] c = "x" -> 120

\* s < t for str (lexicographic by code point; a proper prefix is smaller)
RECURSIVE StrLess(_, _)
StrLess(s, t) ==
    IF t = <<>> THEN FALSE
    ELSE IF s = <<>> THEN TRUE
    ELSE IF Head(s) = Head(t) THEN StrLess(Tail(s), Tail(t))
    ELSE Ord(Head(s)) < Ord(Head(t))

(***************************************************************************)
(* Paths (all in the configured directory, so a path is its file name)     *)
(***************************************************************************)
\* Index of the last "." of a name, 0 if there is none.
LastDot(name) ==
    LET dots == {k \in 1..Len(name) : name[k] = "."}
    IN  IF dots = {} THEN 0 ELSE CHOOSE k \in dots : \A m \in dots : m <= k

\* PurePath.suffix: from the last dot on, unless the name starts with it.
Suffix(name) ==
    LET k == LastDot(name)
    IN  IF k > 1 /\ k < Len(name) THEN SubSeq(name, k, Len(name)) ELSE <<>>

\* PurePath.with_suffix(s)
WithSuffix(name, s) == SubSeq(name, 1, Len(name) - Len(Suffix(name))) \o s

TXT == <<".", "t", "x", "t">>

IMAGE_SUFFIXES ==
    { <<".", "p", "n", "g">>, <<".", "j", "p", "g">>,
      <<".", "j", "p", "e", "g">>, <<".", "w", "e", "b", "p">> }

AllImageNames ==
    << <<"a", ".", "j", "p", "g">>,
       <<"a", ".", "p", "n", "g">>,
       <<"B", ".", "P", "N", "G">> >>

ImageNames == {AllImageNames[k] : k \in 1..Len(AllImageNames)}

CaptionNames == {WithSuffix(n, TXT) : n \in ImageNames}

Names == ImageNames \cup CaptionNames

(***************************************************************************)
(* Files                                                                   *)
(***************************************************************************)
NoFile == [exists |-> FALSE, data |-> <<>>]

File(data) == [exists |-> TRUE, data |-> data]

ImageData == <<"i">>

\* Caption files that may exist before the first run.
ExistingCaptions == { <<"x">>, <<"x", "\r", "\n">> }

\* Path.iterdir(): the names present in the directory
IterDir(f) == {n \in DOMAIN f : f[n].exists}

\* Path.read_text(encoding='utf-8'): text mode with universal newlines,
\* "\r\n" and "\r" are read as "\n".
RECURSIVE ReadText(_)
ReadText(data) ==
    IF data = <<>> THEN <<>>
    ELSE IF Head(data) = "\r"
         THEN IF Len(data) >= 2 /\ data[2] = "\n"
              THEN <<"\n">> \o ReadText(Tail(Tail(data)))
              ELSE <<"\n">> \o ReadText(Tail(data))
         ELSE <<Head(data)>> \o ReadText(Tail(data))

\* os.linesep of the platform (POSIX)
LINESEP == <<"\n">>

\* Path.write_text(text, encoding="utf-8"): text mode, "\n" is written as
\* os.linesep.
RECURSIVE WriteText(_)
WriteText(text) ==
    IF text = <<>> THEN <<>>
    ELSE (IF Head(text) = "\n" THEN LINESEP ELSE <<Head(text)>>)
         \o WriteText(Tail(text))

(***************************************************************************)
(* Caption client (core_logic.py)                                          *)
(***************************************************************************)
\* What the server call can do: answer 2xx with a JSON body whose
\* "response" field is body, or raise (timeout, connection, non-2xx, bad
\* JSON) an exception whose str() is body.
HttpOutcomes ==
    { [kind |-> "ok",  body |-> <<" ", "c", "\n">>],
      [kind |-> "ok",  body |-> <<" ">>],
      [kind |-> "ok",  body |-> <<>>],
      [kind |-> "exc", body |-> <<"t">>] }

\* encode_image_to_base64: None when open/read raises, else the base64 text
\* (empty for an empty file).
EncodeImageToBase64(openOk, data) ==
    IF ~openOk THEN [none |-> TRUE, b64 |-> <<>>]
    ELSE [none |-> FALSE, b64 |-> IF data = <<>> THEN <<>> ELSE <<"b64:">> \o data]

\* generate_caption_api line 41: "if not image_base64"
EncodingFailed(enc) == enc.none \/ enc.b64 = <<>>

\* generate_caption_api lines 51-56: the value returned for an HTTP outcome
HttpResult(out) ==
    IF out.kind = "ok" THEN Strip(out.body)
    ELSE ERROR_PREFIX \o <<" ">> \o out.body

(***************************************************************************)
(* Batch worker (workers.py, CaptionWorker.run)                            *)
(***************************************************************************)
\* A sort that orders the paths descending.
RECURSIVE SortPaths_Descending(_)
SortPaths_Descending(S) ==
    IF S = {} THEN <<>>
    ELSE LET m == CHOOSE x \in S : \A y \in S \ {x} : StrLess(y, x)
         IN  <<m>> \o SortPaths_Descending(S \ {m})

\* images.sort(): ascending by path
RECURSIVE SortPaths(_)
SortPaths(S) ==
    IF S = {} THEN <<>>
    ELSE LET m == CHOOSE x \in S : \A y \in S \ {x} : StrLess(x, y)
         IN  <<m>> \o SortPaths(S \ {m})

\* A suffix filter that compares without lower().
IsImage_CaseSensitive(name) == Suffix(name) \in IMAGE_SUFFIXES

\* line 18: the suffix filter
IsImage(name) == Lower(Suffix(name)) \in IMAGE_SUFFIXES

\* line 18-19
ScanImages(f) == SortPaths({n \in IterDir(f) : IsImage(n)})

\* Python float is IEEE-754 binary64: 53 significant bits.
MANT_DIG == 53

RECURSIVE Pow2(_)
Pow2(k) == IF k = 0 THEN 1 ELSE 2 * Pow2(k - 1)

\* Long integers are sequences of limbs, most significant first; every limb
\* but the first is below LIMB.
LIMB_BITS == 13

LIMB == Pow2(LIMB_BITS)

\* Number of bits of n > 0
RECURSIVE BitLen(_)
BitLen(n) == IF n = 0 THEN 0 ELSE 1 + BitLen(n \div 2)

LongBitLen(x) == BitLen(x[1]) + LIMB_BITS * (Len(x) - 1)

\* x + c, for a small c >= 0
RECURSIVE LongAdd(_, _)
LongAdd(x, c) ==
    IF Len(x) = 1 THEN <<x[1] + c>>
    ELSE LET t == x[Len(x)] + c
         IN  LongAdd(SubSeq(x, 1, Len(x) - 1), t \div LIMB) \o <<t % LIMB>>

\* x * k + carry, for a small k
RECURSIVE LongMul(_, _, _)
LongMul(x, k, carry) ==
    LET t == x[Len(x)] * k + carry
    IN  IF Len(x) = 1 THEN <<t>>
        ELSE LongMul(SubSeq(x, 1, Len(x) - 1), k, t \div LIMB) \o <<t % LIMB>>

\* (top * LIMB^n) divided by d, top the first limb: quotient and remainder
RECURSIVE LongDiv(_, _, _)
LongDiv(top, n, d) ==
    IF n = 0 THEN [q |-> <<top \div d>>, r |-> top % d]
    ELSE LET hi == LongDiv(top, n - 1, d)
             t  == hi.r * LIMB
         IN  [q |-> hi.q \o <<t \div d>>, r |-> t % d]

\* The first limb brought below LIMB.
LongNorm(x) ==
    IF x[1] < LIMB THEN x ELSE <<x[1] \div LIMB, x[1] % LIMB>> \o Tail(x)

\* x without its n last limbs, as a number (small)
RECURSIVE LongHigh(_, _)
LongHigh(x, n) ==
    IF Len(x) <= n THEN 0
    ELSE IF Len(x) = n + 1 THEN x[1]
    ELSE LongHigh(SubSeq(x, 1, Len(x) - 1), n) * LIMB + x[Len(x) - n]

\* Smallest s with n * 2^s >= d
RECURSIVE NormShift(_, _, _)
NormShift(n, d, s) == IF n >= d THEN s ELSE NormShift(2 * n, d, s + 1)

\* A positive float is m * 2^e with m a long integer of at most MANT_DIG bits.
\* n / d for ints 0 < n < d: the quotient rounded to nearest, ties to even.
FloatDiv(n, d) ==
    LET sh  == NormShift(n, d, 0) + MANT_DIG - 1
        dv  == LongDiv(n * Pow2(sh % LIMB_BITS), sh \div LIMB_BITS, d)
        odd == dv.q[Len(dv.q)] % 2 = 1
        up  == 2 * dv.r > d \/ (2 * dv.r = d /\ odd)
    IN  [m |-> IF up THEN LongAdd(dv.q, 1) ELSE dv.q, e |-> 0 - sh]

\* x * k for a small int k > 0: the product rounded to nearest, ties to even.
FloatMul(x, k) ==
    LET p    == LongNorm(LongMul(x.m, k, 0))
        drop == LongBitLen(p) - MANT_DIG
    IN  IF drop <= 0 THEN [m |-> p, e |-> x.e]
        ELSE LET unit == Pow2(drop)
                 last == p[Len(p)]
                 low  == last % unit
                 odd  == (last \div unit) % 2 = 1
                 up   == 2 * low > unit \/ (2 * low = unit /\ odd)
                 cut  == [p EXCEPT ![Len(p)] = last - low]
             IN  [m |-> IF up THEN LongAdd(cut, unit) ELSE cut, e |-> x.e]

\* int(x) for a float 0 < x < 2^17: truncation
FloatToInt(x) ==
    LET sh == 0 - x.e
    IN  LongHigh(LongNorm(x.m), sh \div LIMB_BITS) \div Pow2(sh % LIMB_BITS)

\* line 29: int((i / total) * 100), in float arithmetic, for 0 <= i < total
ProgressPercent(idx, n) ==
    IF idx = 0 THEN 0 ELSE FloatToInt(FloatMul(FloatDiv(idx, n), 100))

DigitChars == <<"0", "1", "2", "3", "4", "5", "6", "7", "8", "9">>

\* str(n) for n >= 0
RECURSIVE DecStr(_)
DecStr(n) ==
    IF n < 10 THEN <<DigitChars[n + 1]>>
    ELSE DecStr(n \div 10) \o <<DigitChars[(n % 10) + 1]>>

\* line 29: f"Processing {i + 1}/{total}: {img_file.name}"
ProgressMessage(idx, n, name) ==
    <<"Processing ">> \o DecStr(idx + 1) \o <<"/">> \o DecStr(n)
        \o <<": ">> \o name

\* The overwrite flag read the wrong way round.
ShouldReuse_Inverted(txtExists, ow) == txtExists /\ ow

\* The existing caption never reused.
ShouldReuse_Never(txtExists, ow) == FALSE

\* line 34: reuse the existing caption
ShouldReuse(txtExists, ow) == txtExists /\ ~ow

\* The error prefix not tested.
ShouldPersist_NoErrorCheck(c) == c # <<>>

\* line 39: persist only a non-empty, non-error caption
ShouldPersist(c) == c # <<>> /\ ~StartsWith(c, ERROR_PREFIX)

\* The two texts exchanged.
TerminalMessage_Inverted(stopped) ==
    IF stopped THEN <<"Processing Complete!">> ELSE <<"Processing Stopped.">>

\* line 44
TerminalMessage(stopped) ==
    IF stopped THEN <<"Processing Stopped.">> ELSE <<"Processing Complete!">>

Event(ev, path, text, val) == [ev |-> ev, path |-> path, text |-> text, val |-> val]

Signal(sig, path, text, val) == [sig |-> sig, path |-> path, text |-> text, val |-> val]

\* The signals start_processing connects (image_processing is not connected).
Connected == {"progress_update", "image_finished", "finished"}

Total == Len(images)

CurrentImage == images[i + 1]

TxtPath == WithSuffix(CurrentImage, TXT)

workerVars == <<pc, overwrite, stop_requested, images, i, caption>>

(***************************************************************************)
(* Progress bar (QProgressBar, as the handlers drive it; minimum is 0)     *)
(***************************************************************************)
\* setValue(v): a value outside the range is ignored, unless the range is
\* (0, 0), the busy indicator.
SetValue(cur, max, v) == IF (v > max \/ v < 0) /\ max # 0 THEN cur ELSE v

\* setRange(0, max): a current value above the new maximum is reset to -1.
SetRange(cur, max) == IF cur > max THEN -1 ELSE cur

(***************************************************************************)
(* Sidecar files and the thumbnail cache (core_logic.py lines 16-34)       *)
(***************************************************************************)
TBN == <<".", "t", "b", "n">>

FAV == <<".", "f", "a", "v">>

\* get_thumbnail_path line 20: the cache file of an image, in .thumbnails
ThumbName(name) == name \o TBN

\* the favorite marker: with_suffix(suffix + ".fav")
FavName(name) == WithSuffix(name, Suffix(name) \o FAV)

ThumbNames == {ThumbName(n) : n \in ImageNames}

FavNames == {FavName(n) : n \in ImageNames}

\* An image with an alpha channel: it can be opened, and JPEG cannot hold it.
AlphaImageData == <<"i", "a">>

\* The JPEG preview of an image.
Thumbnail(data) == <<"j">> \o data

\* The path ensure_thumbnail returns for the cache file.
ThumbPath(name) == <<".thumbnails", "/">> \o ThumbName(name)

\* Path.mkdir(exist_ok=True): raises when the directory is absent and cannot
\* be created.
Mkdir(exists, writable) ==
    [raised |-> ~exists /\ ~writable, exists |-> exists \/ writable]

\* Image.open(image_path) and img.thumbnail(size)
CanDecode(file) == file.exists /\ file.data \in {ImageData, AlphaImageData}

\* img.save(thumb_path, "JPEG", quality=85); a failed save leaves no file
CanSaveJpeg(file, writable) == file.data = ImageData /\ writable

\* The cache file never taken as present.
CacheHit_Never(exists) == FALSE

\* line 24: thumb_path.exists()
CacheHit(exists) == exists

\* ensure_thumbnail(image_path): what the call did and returned.
\* kind: "raised" (the exception of mkdir leaves the function), "cache" (the
\* cache file was there), "written" (it was produced), "fallback" (producing
\* it failed, the source path is returned).
EnsureThumbnail(name, f, td, th, writable) ==
    LET mk == Mkdir(td, writable)
        tb == ThumbName(name)
    IN  IF mk.raised
        THEN [kind |-> "raised", path |-> <<>>, opened |-> FALSE,
              encoded |-> FALSE, thumb_dir |-> td, thumbs |-> th]
        ELSE IF CacheHit(th[tb].exists)
        THEN [kind |-> "cache", path |-> ThumbPath(name), opened |-> FALSE,
              encoded |-> FALSE, thumb_dir |-> mk.exists, thumbs |-> th]
        ELSE IF CanDecode(f[name]) /\ CanSaveJpeg(f[name], writable)
        THEN [kind |-> "written", path |-> ThumbPath(name), opened |-> TRUE,
              encoded |-> TRUE, thumb_dir |-> mk.exists,
              thumbs |-> [th EXCEPT ![tb] = File(Thumbnail(f[name].data))]]
        ELSE [kind |-> "fallback", path |-> name, opened |-> TRUE,
              encoded |-> CanDecode(f[name]), thumb_dir |-> mk.exists,
              thumbs |-> th]

\* The record of a call kept in thumbLog: the image file as it was, whether
\* the cache file was there, what the call did, what it returned.
ThumbCall(file, cached, r) ==
    [image |-> file, cached |-> cached, kind |-> r.kind, path |-> r.path,
     opened |-> r.opened, encoded |-> r.encoded]

\* thumbLog with one more call for name, the last two calls kept
Logged(log, name, call) ==
    [log EXCEPT ![name] = IF Len(@) < 2 THEN Append(@, call) ELSE <<@[2], call>>]

\* CaptionItem.load_existing_caption: the text put into caption_edit
ExistingCaption(f, name) ==
    IF f[WithSuffix(name, TXT)].exists
    THEN ReadText(f[WithSuffix(name, TXT)].data)
    ELSE <<>>

(***************************************************************************)
(* Threads                                                                 *)
(***************************************************************************)
\* QThread.isRunning() of self.worker and of self.loader_thread
WorkerRunning == pc \in {"scan", "loop", "check", "http", "persist", "terminal"}

LoaderRunning == loader_pc \in {"scan", "emit"}

\* A scan in flight left running.
MustTerminate_Never(running) == FALSE

\* load_images_to_grid lines 665-667: terminate() and wait()
MustTerminate(running) == running

\* The application after construction, nothing started yet.
ProgramIdle ==
    /\ is_processing = FALSE
    /\ btn_enabled = TRUE
    /\ btn_text = "Start Captioning"
    /\ status_label = <<"Models loaded.">>
    /\ progress_bar = -1
    /\ image_items = <<>>
    /\ pc = "idle"
    /\ overwrite = FALSE
    /\ stop_requested = FALSE
    /\ images = <<>>
    /\ i = 0
    /\ caption = <<>>
    /\ sigq = <<>>
    /\ trace = <<>>
    /\ runNo = 0
    /\ prevWrote = {}
    /\ stopAt = -1
    /\ total = 0
    /\ percent = -1
    /\ prevPercent = -1

\* The review grid after construction: empty, no scan started.
GridIdle ==
    /\ app = "running"
    /\ dir_input = <<>>
    /\ progress_max = 100
    /\ loader_pc = "none"
    /\ loader_images = <<>>
    /\ loadq = <<>>
    /\ loading_queue = <<>>
    /\ load_timer = FALSE
    /\ strayWorkers = 0
    /\ strayLoaders = 0
    /\ loads = 0
    /\ scans = <<>>
    /\ gridFrom = <<>>
    /\ lastTick = [before |-> <<>>, took |-> <<>>]
    /\ thumbLog = [n \in ImageNames |-> <<>>]
    /\ lastDelete = [path |-> <<>>]

\* No function is called alone.
NoCall == [fn |-> "none"]

CallsIdle == callIn = NoCall /\ callOut = NoCall

Init ==
    /\ dirExists \in BOOLEAN
    /\ fs \in [Names -> {NoFile, File(ImageData)} \cup {File(c) : c \in ExistingCaptions}]
    /\ \A n \in ImageNames : fs[n] \in {NoFile, File(ImageData)}
    /\ \A n \in CaptionNames :
          /\ fs[n] \in {NoFile} \cup {File(c) : c \in ExistingCaptions}
          /\ fs[n].exists => \E m \in ImageNames : fs[m].exists /\ WithSuffix(m, TXT) = n
    /\ Cardinality({n \in ImageNames : fs[n].exists}) <= MaxImages
    /\ ~dirExists => \A n \in Names : ~fs[n].exists
    /\ startFs = fs
    /\ dirWritable = TRUE
    /\ thumb_dir = FALSE
    /\ thumbs = [n \in ThumbNames |-> NoFile]
    /\ ProgramIdle
    /\ GridIdle
    /\ CallsIdle

\* Paths whose caption the run recorded in t persisted.
Wrote(t) == {t[k].path : k \in {j \in 1..Len(t) : t[j].ev = "write"}}

(* OllamaCaptionerApp.toggle_processing, not processing: start_processing.  *)
(* cfgOk: the directory field and the model selector are both non-empty.    *)
StartProcessing(ow, cfgOk) ==
    /\ btn_enabled
    /\ ~is_processing
    /\ UNCHANGED <<percentVars, callVars, gridVars>>
    /\ IF ~cfgOk
       THEN /\ status_label' = <<"Error: Check directory and model.">>
            /\ UNCHANGED <<dirExists, fs, is_processing, btn_enabled, btn_text,
                           progress_bar, image_items, workerVars, sigq, trace,
                           runNo, startFs, prevWrote, stopAt, strayWorkers>>
       ELSE /\ runNo < MaxRuns
            /\ strayWorkers' = strayWorkers + (IF WorkerRunning THEN 1 ELSE 0)
            /\ is_processing' = TRUE
            /\ btn_text' = "Stop Processing"
            /\ overwrite' = ow
            /\ stop_requested' = FALSE
            /\ pc' = "scan"
            /\ images' = <<>>
            /\ i' = 0
            /\ caption' = <<>>
            /\ runNo' = runNo + 1
            /\ startFs' = fs
            /\ prevWrote' = Wrote(trace)
            /\ trace' = <<>>
            /\ stopAt' = -1
            /\ UNCHANGED <<dirExists, fs, btn_enabled, status_label, progress_bar,
                           image_items, sigq>>

(* OllamaCaptionerApp.toggle_processing while processing: request a stop.   *)
RequestStop ==
    /\ btn_enabled
    /\ is_processing
    /\ stop_requested' = TRUE
    /\ btn_enabled' = FALSE
    /\ btn_text' = "Stopping..."
    /\ stopAt' = IF pc \in {"check", "http", "persist"} THEN i ELSE -1
    /\ UNCHANGED <<percentVars, callVars, gridVars, strayWorkers>>
    /\ UNCHANGED <<dirExists, fs, is_processing, status_label, progress_bar,
                   image_items, pc, overwrite, images, i, caption, sigq, trace,
                   runNo, startFs, prevWrote>>

\* A signal emitted by the worker thread: recorded, and queued for the UI
\* thread when a slot is connected to it.
Emit(t, q, s) ==
    /\ trace' = t \o <<Event(s.sig, s.path, s.text, s.val)>>
    /\ sigq' = IF s.sig \in Connected THEN q \o <<s>> ELSE q

(* run() lines 17-24: scan, sort, and the empty case.                       *)
Scan ==
    /\ pc = "scan"
    /\ IF ~dirExists
       THEN \* iterdir() raises FileNotFoundError: run() ends by the exception
            /\ pc' = "crashed"
            /\ UNCHANGED <<images, sigq, trace>>
       ELSE /\ images' = ScanImages(fs)
            /\ IF Len(images') = 0
               THEN /\ Len(sigq) < MaxQueued
                    /\ Emit(trace, sigq, Signal("finished", <<>>, <<"No images found.">>, 0))
                    /\ pc' = "done"
               ELSE /\ pc' = "loop"
                    /\ UNCHANGED <<sigq, trace>>
    /\ UNCHANGED <<percentVars, callVars, gridVars, strayWorkers>>
    /\ UNCHANGED <<dirExists, fs, uiVars, overwrite, stop_requested, i, caption,
                   runNo, startFs, prevWrote, stopAt>>

(* run() lines 26-30: the loop head, the stop check and the two            *)
(* notifications that open an entry.                                        *)
LoopStep ==
    /\ pc = "loop"
    /\ IF i >= Total \/ stop_requested
       THEN /\ pc' = "terminal"
            /\ UNCHANGED <<sigq, trace>>
       ELSE /\ Len(sigq) < MaxQueued
            /\ trace' = trace \o
                 << Event("progress_update", CurrentImage,
                          ProgressMessage(i, Total, CurrentImage),
                          ProgressPercent(i, Total)),
                    Event("image_processing", CurrentImage, <<>>, 0) >>
            /\ sigq' = sigq \o
                 << Signal("progress_update", CurrentImage,
                           ProgressMessage(i, Total, CurrentImage),
                           ProgressPercent(i, Total)) >>
            /\ pc' = "check"
    /\ UNCHANGED <<percentVars, callVars, gridVars, strayWorkers>>
    /\ UNCHANGED <<dirExists, fs, uiVars, overwrite, stop_requested, images, i,
                   caption, runNo, startFs, prevWrote, stopAt>>

(* run() lines 32-38 and 42: the caption file test; either the caption is   *)
(* read and image_finished emitted, or generate_caption_api is entered      *)
(* (core_logic.py lines 36-42).  readOk: read_text does not raise.          *)
(* openOk: the image file can be opened and read.                           *)
CheckCaption(readOk, openOk) ==
    /\ pc = "check"
    /\ LET reached == Event("reached", CurrentImage, fs[TxtPath].data,
                            IF fs[TxtPath].exists THEN 1 ELSE 0)
       IN
       IF ShouldReuse(fs[TxtPath].exists, overwrite)
       THEN IF readOk
            THEN /\ Len(sigq) < MaxQueued
                 /\ caption' = ReadText(fs[TxtPath].data)
                 /\ Emit(trace \o <<reached>>, sigq,
                         Signal("image_finished", CurrentImage, caption', 0))
                 /\ i' = i + 1
                 /\ pc' = "loop"
            ELSE \* read_text raises (OSError, UnicodeDecodeError): not caught
                 /\ trace' = trace \o <<reached>>
                 /\ pc' = "crashed"
                 /\ UNCHANGED <<caption, sigq, i>>
       ELSE IF EncodingFailed(EncodeImageToBase64(openOk /\ fs[CurrentImage].exists,
                                                  fs[CurrentImage].data))
            THEN /\ caption' = ENCODING_FAILED
                 /\ trace' = trace \o
                      << reached,
                         Event("call", CurrentImage, <<>>, 0),
                         Event("ret", CurrentImage, caption', 0) >>
                 /\ pc' = "persist"
                 /\ UNCHANGED <<sigq, i>>
            ELSE /\ trace' = trace \o
                      << reached,
                         Event("call", CurrentImage, <<>>, 0),
                         Event("post", CurrentImage, <<>>, 0) >>
                 /\ pc' = "http"
                 /\ UNCHANGED <<caption, sigq, i>>
    /\ UNCHANGED <<percentVars, callVars, gridVars, strayWorkers>>
    /\ UNCHANGED <<dirExists, fs, uiVars, overwrite, stop_requested, images,
                   runNo, startFs, prevWrote, stopAt>>

(* generate_caption_api lines 51-56: the POST returns or raises.            *)
HttpReturns(out) ==
    /\ pc = "http"
    /\ caption' = HttpResult(out)
    /\ trace' = trace \o <<Event("ret", CurrentImage, caption', 0)>>
    /\ pc' = "persist"
    /\ UNCHANGED <<percentVars, callVars, gridVars, strayWorkers>>
    /\ UNCHANGED <<dirExists, fs, uiVars, overwrite, stop_requested, images, i,
                   sigq, runNo, startFs, prevWrote, stopAt>>

(* run() lines 39-42: persist a successful caption, emit image_finished.    *)
(* w: write_text succeeds, raises on open (file untouched), or raises       *)
(* after open (file created or truncated, nothing written).                 *)
PersistAndFinish(w) ==
    /\ pc = "persist"
    /\ Len(sigq) < MaxQueued
    /\ IF ShouldPersist(caption)
       THEN CASE w = "ok" ->
                 /\ fs' = [fs EXCEPT ![TxtPath] = File(WriteText(caption))]
                 /\ Emit(trace \o <<Event("write", CurrentImage, WriteText(caption), 0)>>,
                         sigq, Signal("image_finished", CurrentImage, caption, 0))
                 /\ i' = i + 1
                 /\ pc' = "loop"
              [] w = "raise_open" ->
                 /\ pc' = "crashed"
                 /\ UNCHANGED <<fs, sigq, trace, i>>
              [] w = "raise_write" ->
                 /\ fs' = [fs EXCEPT ![TxtPath] = File(<<>>)]
                 /\ pc' = "crashed"
                 /\ UNCHANGED <<sigq, trace, i>>
       ELSE /\ w = "ok"
            /\ Emit(trace, sigq, Signal("image_finished", CurrentImage, caption, 0))
            /\ i' = i + 1
            /\ pc' = "loop"
            /\ UNCHANGED fs
    /\ UNCHANGED <<percentVars, callVars, gridVars, strayWorkers>>
    /\ UNCHANGED <<dirExists, uiVars, overwrite, stop_requested, images, caption,
                   runNo, startFs, prevWrote, stopAt>>

(* run() line 44: the terminal notification.                                *)
Terminal ==
    /\ pc = "terminal"
    /\ Len(sigq) < MaxQueued
    /\ Emit(trace, sigq, Signal("finished", <<>>, TerminalMessage(stop_requested), 0))
    /\ pc' = "done"
    /\ UNCHANGED <<percentVars, callVars, gridVars, strayWorkers>>
    /\ UNCHANGED <<dirExists, fs, uiVars, overwrite, stop_requested, images, i,
                   caption, runNo, startFs, prevWrote, stopAt>>

(* The UI thread runs the slot of the oldest queued signal:                 *)
(* update_progress, on_image_finished or on_finished.                       *)
DeliverSignal ==
    /\ sigq # <<>>
    /\ LET s == Head(sigq) IN
       CASE s.sig = "progress_update" ->
            /\ status_label' = s.text
            /\ progress_bar' = SetValue(progress_bar, progress_max, s.val)
            /\ UNCHANGED <<is_processing, btn_enabled, btn_text, image_items>>
         [] s.sig = "image_finished" ->
            /\ image_items' = IF s.path \in DOMAIN image_items
                              THEN [image_items EXCEPT ![s.path] = s.text]
                              ELSE image_items
            /\ UNCHANGED <<is_processing, btn_enabled, btn_text, status_label,
                           progress_bar>>
         [] s.sig = "finished" ->
            /\ is_processing' = FALSE
            /\ btn_enabled' = TRUE
            /\ btn_text' = "Start Captioning"
            /\ status_label' = s.text
            /\ UNCHANGED <<progress_bar, image_items>>
    /\ sigq' = Tail(sigq)
    /\ UNCHANGED <<percentVars, callVars, gridVars, strayWorkers>>
    /\ UNCHANGED <<dirExists, fs, workerVars, trace, runNo, startFs, prevWrote, stopAt>>

Next ==
    \/ \E ow \in BOOLEAN, cfgOk \in BOOLEAN : StartProcessing(ow, cfgOk)
    \/ RequestStop
    \/ Scan
    \/ LoopStep
    \/ \E readOk \in BOOLEAN, openOk \in BOOLEAN : CheckCaption(readOk, openOk)
    \/ \E out \in HttpOutcomes : HttpReturns(out)
    \/ \E w \in {"ok", "raise_open", "raise_write"} : PersistAndFinish(w)
    \/ Terminal
    \/ DeliverSignal

Spec == Init /\ [][Next]_vars

(***************************************************************************)
(* The progress values of one run, taken alone: run() lines 20, 26 and 29  *)
(* over a scan of total images, with nothing else of the entry.            *)
(***************************************************************************)
\* Largest scan of the progress computation.
MaxTotal == 50

InitPercent ==
    /\ Init
    /\ dirExists
    /\ \A n \in Names : ~fs[n].exists

\* line 20, for a scan of n images
CountImages(n) ==
    /\ total = 0
    /\ total' = n
    /\ i' = 0
    /\ UNCHANGED <<percent, prevPercent, callVars>>
    /\ UNCHANGED <<dirExists, fs, uiVars, pc, overwrite, stop_requested, images,
                   caption, sigq, trace, runNo, startFs, prevWrote, stopAt, gridVars,
                   strayWorkers>>

\* lines 26 and 29: the percentage emitted for the entry at index i
EmitPercent ==
    /\ total > 0
    /\ i < total
    /\ percent' = ProgressPercent(i, total)
    /\ prevPercent' = percent
    /\ i' = i + 1
    /\ UNCHANGED <<total, callVars>>
    /\ UNCHANGED <<dirExists, fs, uiVars, pc, overwrite, stop_requested, images,
                   caption, sigq, trace, runNo, startFs, prevWrote, stopAt, gridVars,
                   strayWorkers>>

NextPercent ==
    \/ \E n \in 1..MaxTotal : CountImages(n)
    \/ EmitPercent

SpecPercent == InitPercent /\ [][NextPercent]_vars

(***************************************************************************)
(* Review grid (gui_captioner.py): the directory scan thread, the          *)
(* incremental population of the grid, and the deletion of an entry.       *)
(* An exception that leaves a slot ends the application (PyQt6 aborts on   *)
(* an unhandled exception in a slot).  A No to the deletion dialog changes *)
(* nothing.  The queued result of a scan whose thread object has been      *)
(* replaced may or may not still be delivered.                             *)
(***************************************************************************)
\* Number of calls of load_images_to_grid.
MaxLoads == 2

DIR == <<"dir">>

\* Two spellings of the directory, and the empty field.
DirTexts == {<<>>, DIR, DIR \o <<"/">>}

GridNames == Names \cup FavNames

NoTick == [before |-> <<>>, took |-> <<>>]

NoDelete == [path |-> <<>>]

\* self.image_items[path] = item: the item is written over an older one
PutItem(items, path, text) ==
    [p \in DOMAIN items \cup {path} |-> IF p = path THEN text ELSE items[p]]

\* line 718
LoadedMessage(n) == <<"Loaded ">> \o DecStr(n) \o <<" images.">>

\* line 730
LoadingMessage(cur, max) ==
    <<"Loading thumbnails: ">> \o DecStr(cur) \o <<"/">> \o DecStr(max)

\* An exception has left a slot: the process is gone, with its threads and
\* its queued events.
Abort ==
    /\ app' = "aborted"
    /\ pc' = "aborted"
    /\ sigq' = <<>>
    /\ loadq' = <<>>
    /\ btn_enabled' = FALSE
    /\ load_timer' = FALSE
    /\ loader_pc' = IF LoaderRunning THEN "terminated" ELSE loader_pc

(* load_images_to_grid lines 663-694, for the field content text.           *)
(* keepStale: results of replaced scan threads still queued are delivered.  *)
GridReload(text, keepStale) ==
    /\ loads' = loads + 1
    /\ load_timer' = FALSE
    /\ image_items' = <<>>
    /\ loading_queue' = <<>>
    /\ IF text = <<>> \/ ~dirExists
       THEN /\ status_label' = <<"Ready">>
            /\ progress_bar' = SetValue(progress_bar, progress_max, 0)
            /\ loader_pc' = IF MustTerminate(LoaderRunning)
                            THEN "terminated" ELSE loader_pc
            /\ UNCHANGED <<progress_max, loader_images, loadq, strayLoaders>>
       ELSE /\ status_label' = <<"Scanning directory...">>
            /\ progress_max' = 0
            /\ progress_bar' = SetRange(progress_bar, 0)
            /\ strayLoaders' = strayLoaders +
                 (IF LoaderRunning /\ ~MustTerminate(LoaderRunning) THEN 1 ELSE 0)
            /\ loader_pc' = "scan"
            /\ loader_images' = <<>>
            /\ loadq' = IF keepStale THEN loadq ELSE <<>>

(* dir_input.textChanged: the field content becomes text.                   *)
LoadImagesToGrid(text, keepStale) ==
    /\ app = "running"
    /\ loads < MaxLoads
    /\ text # dir_input
    /\ dir_input' = text
    /\ GridReload(text, keepStale)
    /\ UNCHANGED <<dirExists, fs, is_processing, btn_enabled, btn_text,
                   workerVars, sigq, trace, runNo, startFs, prevWrote, stopAt,
                   percentVars, callVars, cacheVars, app, strayWorkers, scans, gridFrom,
                   lastTick, lastDelete>>

(* ImageLoader.run lines 55-61: the directory test, the scan and the sort.  *)
LoaderScan ==
    /\ loader_pc = "scan"
    /\ loader_images' = IF dirExists THEN ScanImages(fs) ELSE <<>>
    /\ scans' = Append(scans, [there |-> dirExists, dir |-> fs,
                               out |-> loader_images', emits |-> 0,
                               load |-> loads])
    /\ loader_pc' = "emit"
    /\ UNCHANGED <<dirExists, fs, uiVars, workerVars, sigq, trace, runNo,
                   startFs, prevWrote, stopAt, percentVars, callVars, cacheVars, app,
                   dir_input, progress_max, loadq, loading_queue, load_timer,
                   strayWorkers, strayLoaders, loads, gridFrom, lastTick,
                   lastDelete>>

(* ImageLoader.run lines 57 and 62: finished.emit, and the thread ends.     *)
LoaderEmit ==
    /\ loader_pc = "emit"
    /\ loadq' = Append(loadq, loader_images)
    /\ scans' = [scans EXCEPT ![Len(scans)].emits = @ + 1]
    /\ loader_pc' = "finished"
    /\ UNCHANGED <<dirExists, fs, uiVars, workerVars, sigq, trace, runNo,
                   startFs, prevWrote, stopAt, percentVars, callVars, cacheVars, app,
                   dir_input, progress_max, loader_images, loading_queue,
                   load_timer, strayWorkers, strayLoaders, loads, gridFrom,
                   lastTick, lastDelete>>

(* start_incremental_load lines 696-710: the slot of the loader's finished. *)
StartIncrementalLoad ==
    /\ app = "running"
    /\ loadq # <<>>
    /\ loadq' = Tail(loadq)
    /\ gridFrom' = Head(loadq)
    /\ IF Head(loadq) = <<>>
       THEN /\ status_label' = <<"No images found.">>
            /\ progress_max' = 100
            /\ progress_bar' = SetValue(SetRange(progress_bar, 100), 100, 0)
            /\ UNCHANGED <<loading_queue, load_timer>>
       ELSE /\ loading_queue' = Head(loadq)
            /\ progress_max' = Len(Head(loadq))
            /\ progress_bar' = SetValue(SetRange(progress_bar, progress_max'),
                                        progress_max', 0)
            /\ load_timer' = TRUE
            /\ UNCHANGED status_label
    /\ UNCHANGED <<dirExists, fs, is_processing, btn_enabled, btn_text,
                   image_items, workerVars, sigq, trace, runNo, startFs,
                   prevWrote, stopAt, percentVars, callVars, cacheVars, app, dir_input,
                   loader_pc, loader_images, strayWorkers, strayLoaders, loads,
                   scans, lastTick, lastDelete>>

\* load_next_image_batch lines 715-730: one pass of the loop body over the
\* fields st the loop changes; st.more is false once the handler has
\* returned or an exception has left it.
LoadOne(st) ==
    IF st.queue = <<>>
    THEN [st EXCEPT !.more = FALSE, !.timer = FALSE,
                    !.status = LoadedMessage(Cardinality(DOMAIN st.items))]
    ELSE LET name == Head(st.queue)
             r    == EnsureThumbnail(name, fs, st.thumb_dir, st.thumbs, dirWritable)
             cur  == progress_max - Len(Tail(st.queue))
             log  == Logged(st.log, name,
                            ThumbCall(fs[name], st.thumbs[ThumbName(name)].exists, r))
         IN  IF r.kind = "raised"
             THEN [st EXCEPT !.more = FALSE, !.raised = TRUE,
                             !.queue = Tail(st.queue), !.log = log]
             ELSE [st EXCEPT !.queue = Tail(st.queue),
                             !.took = Append(st.took, name),
                             !.items = PutItem(st.items, name, ExistingCaption(fs, name)),
                             !.thumb_dir = r.thumb_dir,
                             !.thumbs = r.thumbs,
                             !.log = log,
                             !.value = SetValue(st.value, progress_max, cur),
                             !.status = LoadingMessage(cur, progress_max)]

\* line 715: for _ in range(batch_size), the loop body at most k more times.
RECURSIVE LoadBatch(_, _)
LoadBatch(st, k) ==
    IF k = 0 \/ ~st.more THEN st
    ELSE CHOOSE res \in {LoadBatch(next, k - 1) : next \in {LoadOne(st)}} : TRUE

\* line 714
BATCH_SIZE == 3

(* load_next_image_batch lines 712-733: one tick of load_timer.             *)
LoadNextImageBatch ==
    /\ app = "running"
    /\ load_timer
    /\ \E st \in {LoadBatch([queue |-> loading_queue, items |-> image_items,
                             thumb_dir |-> thumb_dir, thumbs |-> thumbs,
                             log |-> thumbLog, took |-> <<>>,
                             value |-> progress_bar, status |-> status_label,
                             timer |-> TRUE, more |-> TRUE, raised |-> FALSE],
                            BATCH_SIZE)} :
           /\ loading_queue' = st.queue
           /\ image_items' = st.items
           /\ thumb_dir' = st.thumb_dir
           /\ thumbs' = st.thumbs
           /\ thumbLog' = st.log
           /\ progress_bar' = st.value
           /\ status_label' = st.status
           /\ lastTick' = [before |-> loading_queue, took |-> st.took]
           /\ IF st.raised
              THEN Abort
              ELSE /\ load_timer' = st.timer
                   /\ UNCHANGED <<app, pc, sigq, loadq, btn_enabled, loader_pc>>
    /\ UNCHANGED <<dirExists, fs, is_processing, btn_text, overwrite,
                   stop_requested, images, i, caption, trace, runNo, startFs,
                   prevWrote, stopAt, percentVars, callVars, dirWritable, dir_input,
                   progress_max, loader_images, strayWorkers, strayLoaders,
                   loads, scans, gridFrom, lastDelete>>

\* A removal that empties the file and leaves it.
RemoveFile_Truncate(f, name) == [f EXCEPT ![name] = File(<<>>)]

\* os.remove(path)
RemoveFile(f, name) == [f EXCEPT ![name] = NoFile]

\* delete_image_item lines 826-841: the removals, up to the first that
\* raises.  failAt names the removal the file system refuses, if any; the
\* removal of a file that is not there raises, and so does every removal
\* when the directory is not writable.
Removals(path, f, td, th, writable, failAt) ==
    LET txt == WithSuffix(path, TXT)
        fav == FavName(path)
        tb  == ThumbName(path)
        s1  == IF f[path].exists /\ writable /\ failAt # "image"
               THEN [f |-> RemoveFile(f, path), err |-> FALSE]
               ELSE [f |-> f, err |-> TRUE]
        s2  == IF s1.err \/ ~s1.f[txt].exists THEN s1
               ELSE IF failAt = "caption" THEN [s1 EXCEPT !.err = TRUE]
               ELSE [s1 EXCEPT !.f = RemoveFile(s1.f, txt)]
        s3  == IF s2.err \/ ~s2.f[fav].exists THEN s2
               ELSE IF failAt = "favorite" THEN [s2 EXCEPT !.err = TRUE]
               ELSE [s2 EXCEPT !.f = RemoveFile(s2.f, fav)]
        mk  == Mkdir(td, writable)
    IN  IF s3.err THEN [f |-> s3.f, td |-> td, th |-> th, err |-> TRUE]
        ELSE IF mk.raised THEN [f |-> s3.f, td |-> td, th |-> th, err |-> TRUE]
        ELSE IF ~th[tb].exists
        THEN [f |-> s3.f, td |-> mk.exists, th |-> th, err |-> FALSE]
        ELSE IF failAt = "thumbnail"
        THEN [f |-> s3.f, td |-> mk.exists, th |-> th, err |-> TRUE]
        ELSE [f |-> s3.f, td |-> mk.exists, th |-> RemoveFile(th, tb), err |-> FALSE]

\* line 843
DeletedMessage(path) == <<"Deleted: ">> \o path

\* line 846: f"Error deleting: {e}"
DeleteErrorMessage == <<"Error deleting: ", "e">>

FailPoints == {"none", "image", "caption", "favorite", "thumbnail"}

(* delete_image_item lines 818-846, the dialog answered Yes; on success the *)
(* grid is reloaded (line 844).                                             *)
DeleteImageItem(path, failAt, keepStale) ==
    /\ app = "running"
    /\ loads < MaxLoads
    /\ path \in DOMAIN image_items
    /\ LET r == Removals(path, fs, thumb_dir, thumbs, dirWritable, failAt)
       IN  /\ fs' = r.f
           /\ thumb_dir' = r.td
           /\ thumbs' = r.th
           /\ lastDelete' = [path |-> path, failAt |-> failAt, err |-> r.err,
                             fs |-> fs, thumbs |-> thumbs,
                             fsAfter |-> r.f, thumbsAfter |-> r.th,
                             status |-> IF r.err THEN DeleteErrorMessage
                                        ELSE DeletedMessage(path)]
           /\ IF r.err
              THEN /\ status_label' = DeleteErrorMessage
                   /\ UNCHANGED <<progress_bar, image_items, progress_max,
                                  loader_pc, loader_images, loadq, strayLoaders,
                                  loads, loading_queue, load_timer>>
              ELSE GridReload(dir_input, keepStale)
    /\ UNCHANGED <<dirExists, is_processing, btn_enabled, btn_text, workerVars,
                   sigq, trace, runNo, startFs, prevWrote, stopAt, percentVars, callVars,
                   dirWritable, thumbLog, app, dir_input, strayWorkers, scans,
                   gridFrom, lastTick>>

(* Environment: the directory is removed with all it holds, between the     *)
(* test of load_images_to_grid (line 684) and the scan of the loader.       *)
RemoveDirectory ==
    /\ dirExists
    /\ loader_pc = "scan"
    /\ dirExists' = FALSE
    /\ fs' = [n \in DOMAIN fs |-> NoFile]
    /\ thumb_dir' = FALSE
    /\ thumbs' = [n \in DOMAIN thumbs |-> NoFile]
    /\ UNCHANGED <<uiVars, workerVars, sigq, trace, runNo, startFs, prevWrote,
                   stopAt, percentVars, callVars, dirWritable, thumbLog, loaderVars, app,
                   dir_input, progress_max, loading_queue, load_timer,
                   strayWorkers, gridFrom, lastTick, lastDelete>>

InitGrid ==
    /\ dirExists = TRUE
    /\ \E S \in SUBSET ImageNames :
          /\ Cardinality(S) <= MaxImages
          /\ \E alpha \in SUBSET (S \cap {<<"a", ".", "p", "n", "g">>}),
                captioned \in SUBSET S,
                favorite \in SUBSET (S \cap {<<"a", ".", "j", "p", "g">>}) :
                fs = [n \in GridNames |->
                        IF n \in S
                        THEN File(IF n \in alpha THEN AlphaImageData ELSE ImageData)
                        ELSE IF \E m \in captioned : WithSuffix(m, TXT) = n
                        THEN File(<<"x">>)
                        ELSE IF \E m \in favorite : FavName(m) = n
                        THEN File(<<>>)
                        ELSE NoFile]
    /\ dirWritable \in BOOLEAN
    /\ thumb_dir \in BOOLEAN
    /\ thumbs = [n \in ThumbNames |-> NoFile]
    /\ startFs = fs
    /\ ProgramIdle
    /\ GridIdle
    /\ CallsIdle

NextGrid ==
    \/ \E text \in DirTexts, keepStale \in BOOLEAN : LoadImagesToGrid(text, keepStale)
    \/ LoaderScan
    \/ LoaderEmit
    \/ StartIncrementalLoad
    \/ LoadNextImageBatch
    \/ RemoveDirectory

SpecGrid == InitGrid /\ [][NextGrid]_vars

(***************************************************************************)
(* Deletions from a loaded grid: the directory field names the directory,  *)
(* the images are plain ones, and any one removal may be refused.          *)
(***************************************************************************)
InitDelete ==
    /\ InitGrid
    /\ \A n \in ImageNames : fs[n].data # AlphaImageData

NextDelete ==
    \/ \E text \in DirTexts \ {<<>>} : LoadImagesToGrid(text, FALSE)
    \/ LoaderScan
    \/ LoaderEmit
    \/ StartIncrementalLoad
    \/ LoadNextImageBatch
    \/ \E path \in ImageNames, failAt \in FailPoints :
          DeleteImageItem(path, failAt, FALSE)

SpecDelete == InitDelete /\ [][NextDelete]_vars

(***************************************************************************)
(* The two background roles together: the review grid with its scan        *)
(* thread, and the batch worker, over a writable directory.                *)
(***************************************************************************)
InitThreads ==
    /\ InitGrid
    /\ dirWritable
    /\ ~thumb_dir
    /\ \A n \in GridNames :
          fs[n].exists => n \in {<<"a", ".", "j", "p", "g">>, <<"a", ".", "t", "x", "t">>}

NextThreads ==
    \/ \E text \in DirTexts : LoadImagesToGrid(text, TRUE)
    \/ LoaderScan
    \/ LoaderEmit
    \/ StartIncrementalLoad
    \/ LoadNextImageBatch
    \/ \E path \in ImageNames : DeleteImageItem(path, "none", TRUE)
    \/ \E cfgOk \in {c \in BOOLEAN : c => dir_input # <<>>} :
          StartProcessing(FALSE, cfgOk)
    \/ RequestStop
    \/ Scan
    \/ LoopStep
    \/ \E readOk \in BOOLEAN : CheckCaption(readOk, TRUE)
    \/ \E out \in {o \in HttpOutcomes : o.kind = "exc"} : HttpReturns(out)
    \/ PersistAndFinish("ok")
    \/ Terminal
    \/ DeliverSignal

SpecThreads == InitThreads /\ [][NextThreads]_vars

(***************************************************************************)
(* The incremental load alone: the directory field changes, the scan       *)
(* thread runs and the timer ticks; the result of a replaced scan thread   *)
(* is dropped with the thread.  The event loop delivers every queued scan  *)
(* result and fires a running timer again and again, and the scan thread   *)
(* is scheduled, hence the weak fairness of these four steps.              *)
(***************************************************************************)
InitLoad ==
    /\ InitGrid
    /\ \A n \in GridNames : fs[n].exists => n \in ImageNames

NextLoad ==
    \/ \E text \in DirTexts : LoadImagesToGrid(text, FALSE)
    \/ LoaderScan
    \/ LoaderEmit
    \/ StartIncrementalLoad
    \/ LoadNextImageBatch

SpecLoad ==
    /\ InitLoad
    /\ [][NextLoad]_vars
    /\ WF_vars(LoaderScan)
    /\ WF_vars(LoaderEmit)
    /\ WF_vars(StartIncrementalLoad)
    /\ WF_vars(LoadNextImageBatch)

(***************************************************************************)
(* Functions called alone: the rest of the program stands still.           *)
(***************************************************************************)
stateVars == <<dirExists, fs, uiVars, workerVars, sigq, trace, runNo, startFs,
               prevWrote, stopAt, percentVars, gridVars, strayWorkers>>

Quiet ==
    /\ dirExists = FALSE
    /\ fs = [n \in Names |-> NoFile]
    /\ startFs = fs
    /\ dirWritable = TRUE
    /\ thumb_dir = FALSE
    /\ thumbs = [n \in ThumbNames |-> NoFile]
    /\ ProgramIdle
    /\ GridIdle

(***************************************************************************)
(* The Caption Client: generate_caption_api (core_logic.py) and            *)
(* generate_caption (captionWithOllama.py).                                *)
(***************************************************************************)
\* What the server call can do.  kind: a 2xx answer whose JSON object has
\* the string body as "response" (ok), has no "response" (missing), has
\* null as "response" (null); a 2xx answer that is no JSON (badjson); a
\* non-2xx status (status); no answer (network).  body is the "response"
\* text, or str() of the exception.  exc: the exception raised inside the
\* try is a requests RequestException, another Exception, or none is raised
\* by the call itself (strip() of null raises AttributeError; json() raises
\* a RequestException or a ValueError, as the requests version has it).
Replies ==
    { [kind |-> "ok", body |-> b, exc |-> "none"] :
        b \in { <<" ", "c", "\n">>, <<" ">>, <<>> } }
    \cup { [kind |-> "missing", body |-> <<>>,              exc |-> "none"],
           [kind |-> "null",    body |-> <<"n">>,           exc |-> "other"],
           [kind |-> "badjson", body |-> <<"j">>,           exc |-> "request"],
           [kind |-> "badjson", body |-> <<"j">>,           exc |-> "other"],
           [kind |-> "status",  body |-> <<"5", "0", "0">>, exc |-> "request"],
           [kind |-> "network", body |-> <<"t">>,           exc |-> "request"] }

\* lines 52-56 of generate_caption_api, seen as an outcome of HttpOutcomes'
\* kind: .get("response", "") of an object without the field is "".
AsOutcome(reply) ==
    IF reply.exc = "none"
    THEN [kind |-> "ok",
          body |-> IF reply.kind = "missing" THEN <<>> ELSE reply.body]
    ELSE [kind |-> "exc", body |-> reply.body]

\* generate_caption_api lines 36-56: the value returned, and whether the
\* request was sent.
GenerateCaptionApi(openOk, data, reply) ==
    IF EncodingFailed(EncodeImageToBase64(openOk, data))
    THEN [value |-> ENCODING_FAILED, sent |-> FALSE]
    ELSE [value |-> HttpResult(AsOutcome(reply)), sent |-> TRUE]

\* captionWithOllama.py lines 53, 60, 63
EMPTY_CAPTION == ERROR_PREFIX \o <<" Empty caption returned.">>

CONNECTION_FAILED == ERROR_PREFIX \o <<" Connection to Ollama failed.">>

UNKNOWN_ERROR == ERROR_PREFIX \o <<" An unknown error occurred.">>

\* captionWithOllama.py generate_caption lines 19-63
GenerateCaption(openOk, data, reply) ==
    IF EncodingFailed(EncodeImageToBase64(openOk, data))
    THEN [value |-> ENCODING_FAILED, sent |-> FALSE]
    ELSE [value |->
            CASE reply.exc = "request" -> CONNECTION_FAILED
              [] reply.exc = "other"   -> UNKNOWN_ERROR
              [] OTHER ->
                   LET c == Strip(AsOutcome(reply).body)
                   IN  IF c = <<>> THEN EMPTY_CAPTION ELSE c,
          sent |-> TRUE]

ClientCalls ==
    [fn : {"generate_caption_api", "generate_caption"}, openOk : BOOLEAN,
     data : {ImageData, <<>>}, reply : Replies]

InitClient ==
    /\ Quiet
    /\ callIn \in ClientCalls
    /\ callOut = NoCall

CallCaptionApi ==
    /\ callIn.fn = "generate_caption_api"
    /\ callOut = NoCall
    /\ callOut' = GenerateCaptionApi(callIn.openOk, callIn.data, callIn.reply)
    /\ UNCHANGED <<stateVars, callIn>>

CallCaption ==
    /\ callIn.fn = "generate_caption"
    /\ callOut = NoCall
    /\ callOut' = GenerateCaption(callIn.openOk, callIn.data, callIn.reply)
    /\ UNCHANGED <<stateVars, callIn>>

NextClient == CallCaptionApi \/ CallCaption

SpecClient == InitClient /\ [][NextClient]_vars

(***************************************************************************)
(* Metadata prompt extraction: extract_comfy_prompt (core_logic.py)        *)
(***************************************************************************)
MaxNodes == 3

\* "CLIPTextEncode", line 73
CLIP_TEXT_ENCODE ==
    <<"C", "L", "I", "P", "T", "e", "x", "t", "E", "n", "c", "o", "d", "e">>

\* line 74
KEYS == <<"text", "text_g", "text_l", "string">>

\* sub in s, for strings
Contains(s, sub) ==
    \E k \in 0..(Len(s) - Len(sub)) : SubSeq(s, k + 1, k + Len(sub)) = sub

\* The value of an input of a node: a string, a link to another node (a
\* list), or no such input (inputs.get(key) is None).
Str(s) == [type |-> "str", s |-> s]

Link == [type |-> "list", s |-> <<>>]

NoInput == [type |-> "absent", s |-> <<>>]

NoInputs == [k \in {KEYS[j] : j \in 1..Len(KEYS)} |-> NoInput]

Node(class_type, inputs) ==
    [dict |-> TRUE, class_type |-> class_type, inputs |-> inputs]

\* an entry of the workflow that is no JSON object: .get raises
BadNode == [dict |-> FALSE, class_type |-> <<>>, inputs |-> NoInputs]

Sunset == <<"s", "u", "n", "s", "e", "t">>

Forest == <<"f", "o", "r", "e", "s", "t">>

Mountain == <<"m", "o", "u", "n", "t", "a", "i", "n">>

Photo == <<"p", "h", "o", "t", "o">>

Nodes ==
    { Node(CLIP_TEXT_ENCODE, [NoInputs EXCEPT !["text"] = Str(Sunset)]),
      Node(CLIP_TEXT_ENCODE,
           [NoInputs EXCEPT !["text"] = Str(<<" ">> \o Sunset \o <<"\n">>)]),
      Node(CLIP_TEXT_ENCODE \o <<"S", "D", "X", "L">>,
           [NoInputs EXCEPT !["text_g"] = Str(Mountain),
                            !["text_l"] = Str(Forest)]),
      Node(CLIP_TEXT_ENCODE, [NoInputs EXCEPT !["text"] = Str(Photo)]),
      Node(CLIP_TEXT_ENCODE, [NoInputs EXCEPT !["text"] = Link]),
      Node(<<"K", "S", "a", "m", "p", "l", "e", "r">>,
           [NoInputs EXCEPT !["string"] = Str(Mountain)]),
      BadNode }

\* The "prompt" field of img.info: not there, no JSON, or a JSON object of
\* nodes in the order of the text.
Absent == [kind |-> "absent", nodes |-> <<>>]

Unparsable == [kind |-> "unparsable", nodes |-> <<>>]

Workflow(nodes) == [kind |-> "workflow", nodes |-> nodes]

Workflows ==
    { Workflow(nodes) : nodes \in UNION { [1..n -> Nodes] : n \in 0..MaxNodes } }

\* A text field of img.info: not there, or its text.
NoField == [present |-> FALSE, s |-> <<>>]

Field(s) == [present |-> TRUE, s |-> s]

Metadata ==
    [open : BOOLEAN,
     prompt : {Absent, Unparsable} \cup Workflows,
     parameters : {NoField, Field(<<>>), Field(<<" ", "p", "\n", "q">>)},
     Description : {NoField, Field(<<" ", "d", " ">>)}]

\* The return value: None, or a string.
None == [isNone |-> TRUE, text |-> <<>>]

Text(s) == [isNone |-> FALSE, text |-> s]

\* line 76
Qualifies(v) == v.type = "str" /\ v.s # <<>> /\ Len(Strip(v.s)) > 5

\* lines 70-77, for one node
NodePrompts(node) ==
    IF Contains(node.class_type, CLIP_TEXT_ENCODE)
    THEN LET found == SelectSeq([j \in 1..Len(KEYS) |-> node.inputs[KEYS[j]]],
                                Qualifies)
         IN  [j \in 1..Len(found) |-> Strip(found[j].s)]
    ELSE <<>>

\* lines 68-77: prompts after the loop
RECURSIVE Prompts(_)
Prompts(nodes) ==
    IF nodes = <<>> THEN <<>>
    ELSE NodePrompts(Head(nodes)) \o Prompts(Tail(nodes))

\* line 80: list(set(prompts)) holds each element once, in an order that is
\* the hash table's.
ListsOfSet(prompts) ==
    LET S == {prompts[j] : j \in 1..Len(prompts)}
    IN  { l \in [1..Cardinality(S) -> S] :
            \A a, b \in 1..Cardinality(S) : l[a] = l[b] => a = b }

\* line 81: list.sort(key=len, reverse=True) is stable; l is put in after
\* the elements of sorted that are at least as long.
RECURSIVE InsertByLen(_, _)
InsertByLen(sorted, l) ==
    IF sorted = <<>> THEN <<l>>
    ELSE IF Len(Head(sorted)) >= Len(l)
         THEN <<Head(sorted)>> \o InsertByLen(Tail(sorted), l)
         ELSE <<l>> \o sorted

SortLongestFirst_Unsorted(list) == list

RECURSIVE SortLongestFirst(_)
SortLongestFirst(list) ==
    IF list = <<>> THEN <<>>
    ELSE InsertByLen(SortLongestFirst(SubSeq(list, 1, Len(list) - 1)),
                     list[Len(list)])

\* line 82
RECURSIVE Join(_, _)
Join(sep, parts) ==
    IF parts = <<>> THEN <<>>
    ELSE IF Len(parts) = 1 THEN parts[1]
    ELSE parts[1] \o sep \o Join(sep, Tail(parts))

FirstLine_Whole(s) == s

\* lines 88-90: params.split("\n")[0]
FirstLine(s) ==
    IF \E k \in 1..Len(s) : s[k] = "\n"
    THEN SubSeq(s, 1, (CHOOSE k \in 1..Len(s) :
                          s[k] = "\n" /\ \A j \in 1..(k - 1) : s[j] # "\n") - 1)
    ELSE s

\* lines 65-84: the structured field raises when it is no JSON or an entry
\* is no object, and the exception is passed over.
Raises(prompt) ==
    \/ prompt.kind = "unparsable"
    \/ \E j \in 1..Len(prompt.nodes) : ~prompt.nodes[j].dict

\* The lists list(set(prompts)) can be for this metadata.
UniquePrompts(meta) ==
    IF meta.prompt.kind = "workflow" /\ ~Raises(meta.prompt)
    THEN ListsOfSet(Prompts(meta.prompt.nodes))
    ELSE {<<>>}

\* lines 58-97, with unique_prompts as line 80 made it
ExtractComfyPrompt(meta, unique_prompts) ==
    IF ~meta.open THEN None
    ELSE IF ~(meta.prompt.kind # "absent" \/ meta.parameters.present
              \/ meta.Description.present) THEN None
    ELSE IF /\ meta.prompt.kind # "absent"
            /\ ~Raises(meta.prompt)
            /\ Prompts(meta.prompt.nodes) # <<>>
         THEN Text(Join(<<"\n">>, SortLongestFirst(unique_prompts)))
    ELSE IF meta.parameters.present
         THEN Text(Strip(FirstLine(meta.parameters.s)))
    ELSE IF meta.Description.present
         THEN Text(Strip(meta.Description.s))
    ELSE None

InitExtract ==
    /\ Quiet
    /\ callIn \in [fn : {"extract_comfy_prompt"}, meta : Metadata]
    /\ callOut = NoCall

CallExtract ==
    /\ callIn.fn = "extract_comfy_prompt"
    /\ callOut = NoCall
    /\ \E unique_prompts \in UniquePrompts(callIn.meta) :
          callOut' = ExtractComfyPrompt(callIn.meta, unique_prompts)
    /\ UNCHANGED <<stateVars, callIn>>

SpecExtract == InitExtract /\ [][CallExtract]_vars

(***************************************************************************)
(* The command line: main (captionWithOllama.py)                           *)
(***************************************************************************)
MaxJobs == 2

\* An option of the command line: not given (None), or given with a value.
NotGiven == [given |-> FALSE, v |-> <<>>]

Arg(v) == [given |-> TRUE, v |-> v]

\* line 123, line 146: the truth value of an option
Truthy(arg) == arg.given /\ arg.v # <<>>

\* An entry of the queue file: an object with a "directory", an object
\* without one, or no object (job.get raises).
Job(directory) == [dict |-> TRUE, directory |-> directory]

Jobs == { Job(Arg(<<"d">>)), Job(Arg(<<"e">>)), Job(NotGiven),
          [dict |-> FALSE, directory |-> NotGiven] }

\* The queue file: it cannot be loaded, or it is a list of jobs.
QueueFiles ==
    { [loads |-> FALSE, jobs |-> <<>>] }
    \cup { [loads |-> TRUE, jobs |-> jobs] :
             jobs \in UNION { [1..n -> Jobs] : n \in 0..MaxJobs } }

\* --system: a text, a file that is read, a file whose reading fails
SystemPrompts == {"text", "file", "unreadable"}

CommandLines ==
    [queue : {NotGiven} \cup { [given |-> TRUE, v |-> <<"q">>, file |-> f] :
                                 f \in QueueFiles },
     directory : {NotGiven, Arg(<<>>), Arg(<<"f">>)},
     system : SystemPrompts]

\* What a run of main did: the exit status, whether the usage was printed,
\* and the directories process_directory was called with, in order.
Exit(status, usage, processed) ==
    [status |-> status, usage |-> usage, processed |-> processed]

\* lines 131-144: the loop over the queue, from job k on; a job that is no
\* object ends the program with the traceback of the exception.
RECURSIVE RunQueue(_, _, _)
RunQueue(jobs, k, processed) ==
    IF k > Len(jobs) THEN Exit(0, FALSE, processed)
    ELSE IF ~jobs[k].dict THEN Exit(1, FALSE, processed)
    ELSE IF ~Truthy(jobs[k].directory) THEN RunQueue(jobs, k + 1, processed)
    ELSE RunQueue(jobs, k + 1, Append(processed, jobs[k].directory.v))

\* lines 111-152
Main(args) ==
    IF args.system = "unreadable" THEN Exit(1, FALSE, <<>>)
    ELSE IF Truthy(args.queue)
         THEN IF ~args.queue.file.loads THEN Exit(1, FALSE, <<>>)
              ELSE RunQueue(args.queue.file.jobs, 1, <<>>)
    ELSE IF Truthy(args.directory)
         THEN Exit(0, FALSE, <<args.directory.v>>)
    ELSE Exit(1, TRUE, <<>>)

InitCli ==
    /\ Quiet
    /\ callIn \in [fn : {"main"}, args : CommandLines]
    /\ callOut = NoCall

CallMain ==
    /\ callIn.fn = "main"
    /\ callOut = NoCall
    /\ callOut' = Main(callIn.args)
    /\ UNCHANGED <<stateVars, callIn>>

SpecCli == InitCli /\ [][CallMain]_vars

(***************************************************************************)
(* Saving what the caption editors hold: save_caption, save_all_captions   *)
(* (gui_captioner.py) and extract_metadata_prompt (widgets.py), beside the *)
(* batch worker that fills the editors.                                    *)
(***************************************************************************)
\* CaptionItem.save_caption lines 433-440, as the file system after it.
\* w: write_text succeeds, raises on open, or raises after open; it cannot
\* succeed without the directory, nor create a file in a directory that is
\* not writable.  The exception is caught and printed.
SaveCaption(f, path, text, w) ==
    LET txt_path == WithSuffix(path, TXT)
        c        == Strip(text)
        can      == dirExists /\ (dirWritable \/ f[txt_path].exists)
    IN  IF c = <<>> THEN f
        ELSE IF w = "ok" /\ can THEN [f EXCEPT ![txt_path] = File(WriteText(c))]
        ELSE IF w = "raise_write" /\ can THEN [f EXCEPT ![txt_path] = File(<<>>)]
        ELSE f

\* save_all_captions lines 869-870: the loop over the items, in the order
\* paths.
RECURSIVE SaveItems(_, _, _, _)
SaveItems(f, paths, items, w) ==
    IF paths = <<>> THEN f
    ELSE SaveItems(SaveCaption(f, Head(paths), items[Head(paths)], w),
                   Tail(paths), items, w)

(* OllamaCaptionerApp.save_all_captions lines 868-871                       *)
SaveAllCaptions(w) ==
    /\ app = "running"
    /\ fs' = SaveItems(fs, SortPaths(DOMAIN image_items), image_items, w)
    /\ status_label' = <<"All captions saved.">>
    /\ UNCHANGED <<dirExists, is_processing, btn_enabled, btn_text, progress_bar,
                   image_items, workerVars, sigq, trace, runNo, startFs,
                   prevWrote, stopAt, percentVars, callVars, gridVars,
                   strayWorkers>>

\* img.info of the image files of the directory
FileMetadata ==
    {m \in Metadata : m.open /\ m.prompt = Absent /\ ~m.Description.present}

(* CaptionItem.extract_metadata_prompt, widgets.py lines 363-367            *)
ExtractMetadataPrompt(path, meta, w) ==
    /\ app = "running"
    /\ path \in DOMAIN image_items
    /\ \E unique_prompts \in UniquePrompts(meta) :
          LET prompt == ExtractComfyPrompt([meta EXCEPT !.open = fs[path].exists],
                                           unique_prompts)
          IN  IF prompt.isNone \/ prompt.text = <<>>
              THEN UNCHANGED <<fs, image_items>>
              ELSE /\ image_items' = [image_items EXCEPT ![path] = prompt.text]
                   /\ fs' = SaveCaption(fs, path, prompt.text, w)
    /\ UNCHANGED <<dirExists, is_processing, btn_enabled, btn_text, status_label,
                   progress_bar, workerVars, sigq, trace, runNo, startFs,
                   prevWrote, stopAt, percentVars, callVars, gridVars,
                   strayWorkers>>

NextSave ==
    \/ LoadImagesToGrid(DIR, FALSE)
    \/ LoaderScan
    \/ LoaderEmit
    \/ StartIncrementalLoad
    \/ LoadNextImageBatch
    \/ \E ow \in BOOLEAN : StartProcessing(ow, dir_input # <<>>)
    \/ Scan
    \/ LoopStep
    \/ CheckCaption(TRUE, TRUE)
    \/ \E out \in {o \in HttpOutcomes : o.body # <<>>} : HttpReturns(out)
    \/ PersistAndFinish("ok")
    \/ Terminal
    \/ DeliverSignal
    \/ \E w \in {"ok", "raise_open"} : SaveAllCaptions(w)
    \/ \E path \in ImageNames, meta \in FileMetadata :
          ExtractMetadataPrompt(path, meta, "ok")

SpecSave == InitThreads /\ [][NextSave]_vars

(***************************************************************************)
(* One batch worker that keeps running: the batch handlers over a          *)
(* directory of at most one image, with the worker thread and the event    *)
(* loop scheduled fairly.                                                  *)
(***************************************************************************)
InitRun ==
    /\ Init
    /\ \A n \in Names :
          fs[n].exists => n \in {<<"a", ".", "j", "p", "g">>, <<"a", ".", "t", "x", "t">>}

RunCheckCaption == \E readOk \in BOOLEAN : CheckCaption(readOk, TRUE)

RunHttpReturns == \E out \in {o \in HttpOutcomes : o.body # <<>>} : HttpReturns(out)

RunPersistAndFinish == \E w \in {"ok", "raise_open"} : PersistAndFinish(w)

NextRun ==
    \/ \E ow \in BOOLEAN, cfgOk \in BOOLEAN : StartProcessing(ow, cfgOk)
    \/ RequestStop
    \/ Scan
    \/ LoopStep
    \/ RunCheckCaption
    \/ RunHttpReturns
    \/ RunPersistAndFinish
    \/ Terminal
    \/ DeliverSignal

\* A started QThread runs its run() to the end, a request ends (timeout of
\* line 52), and the event loop of the UI thread delivers every queued
\* signal.
SpecRun ==
    /\ InitRun
    /\ [][NextRun]_vars
    /\ WF_vars(Scan)
    /\ WF_vars(LoopStep)
    /\ WF_vars(RunCheckCaption)
    /\ WF_vars(RunHttpReturns)
    /\ WF_vars(RunPersistAndFinish)
    /\ WF_vars(Terminal)
    /\ WF_vars(DeliverSignal)

(***************************************************************************)
(* Vocabulary of the properties                                            *)
(***************************************************************************)
Evs(ev) == {k \in 1..Len(trace) : trace[k].ev = ev}

PathEvs(ev, p) == {k \in Evs(ev) : trace[k].path = p}

TxtOf(p) == WithSuffix(p, TXT)

\* A Caption Client result that is a failure: empty, or an error text.
IsFailure(c) == c = <<>> \/ StartsWith(c, ERROR_PREFIX)

\* The worker thread has ended: run() returned, or ended by an exception.
RunOver == pc \in {"done", "crashed"}

LastEvent == trace[Len(trace)]

EndedWith(msg) ==
    /\ pc = "done"
    /\ trace # <<>>
    /\ LastEvent.ev = "finished"
    /\ LastEvent.text = msg

\* Entries reached with their caption file present, in a run that does not
\* overwrite.
ReusedEntries == {k \in Evs("reached") : trace[k].val = 1 /\ ~overwrite}

ImageSet == {images[k] : k \in 1..Len(images)}

C2_FailureNotPersisted ==
    /\ \A k \in Evs("ret") :
          IsFailure(trace[k].text) =>
            /\ PathEvs("write", trace[k].path) = {}
            /\ IF k = Len(trace)
               THEN pc = "persist" /\ caption = trace[k].text
               ELSE trace[k + 1] =
                      Event("image_finished", trace[k].path, trace[k].text, 0)
            /\ k + 1 = Len(trace) =>
                  \A r \in PathEvs("reached", trace[k].path) :
                     /\ fs[TxtOf(trace[k].path)].exists = (trace[r].val = 1)
                     /\ fs[TxtOf(trace[k].path)].data = trace[r].text
    /\ \A k \in Evs("write") : ~IsFailure(trace[k].text)
    /\ \A n \in CaptionNames : ~StartsWith(fs[n].data, ERROR_PREFIX)

\* A finished run in which the client failed for both images, once with an
\* error text and once with the empty result: image_finished was emitted
\* for both and neither caption file exists.
C2_Witness ==
    /\ pc = "done"
    /\ \E k \in Evs("ret") :
          /\ StartsWith(trace[k].text, ERROR_PREFIX)
          /\ ~fs[TxtOf(trace[k].path)].exists
          /\ PathEvs("image_finished", trace[k].path) # {}
    /\ \E k \in Evs("ret") :
          /\ trace[k].text = <<>>
          /\ ~fs[TxtOf(trace[k].path)].exists
          /\ PathEvs("image_finished", trace[k].path) # {}

(***************************************************************************)
(* C3                                                                      *)
(***************************************************************************)
\* C3 as stated: a failure while processing an entry never aborts the
\* batch.  Once the worker thread of a run over a non-empty scan has ended,
\* the terminal notification was emitted and, unless a stop was requested,
\* image_finished was emitted for every scanned image.
C3_FailureNeverAbortsBatch ==
    (RunOver /\ Len(images) > 0) =>
        /\ trace # <<>>
        /\ LastEvent.ev = "finished"
        /\ ~stop_requested =>
              /\ LastEvent.text = <<"Processing Complete!">>
              /\ \A p \in ImageSet : PathEvs("image_finished", p) # {}

(***************************************************************************)
(* C4                                                                      *)
(***************************************************************************)
\* C4 as stated: when the stop is requested while entry k is in progress,
\* entry k is completed (image_finished emitted, a successful caption
\* persisted), no later entry is started, and the run ends with
\* "Processing Stopped.".
C4_StopAtEntryBoundary ==
    stopAt >= 0 =>
        /\ \A k \in Evs("progress_update") \cup Evs("call") \cup Evs("write") :
              \E m \in 1..(stopAt + 1) : trace[k].path = images[m]
        /\ RunOver =>
              /\ PathEvs("image_finished", images[stopAt + 1]) # {}
              /\ \A k \in PathEvs("ret", images[stopAt + 1]) :
                    ~IsFailure(trace[k].text) =>
                        PathEvs("write", images[stopAt + 1]) # {}
              /\ EndedWith(<<"Processing Stopped.">>)

(***************************************************************************)
(* C5                                                                      *)
(***************************************************************************)
\* C5 as stated: once a run with overwrite=true that was not cancelled is
\* over, the Caption Client was called exactly once for every scanned image.
C5_OverwriteCallsEveryImage ==
    (RunOver /\ overwrite /\ ~stop_requested) =>
        \A p \in ImageSet : Cardinality(PathEvs("call", p)) = 1

(***************************************************************************)
(* C6                                                                      *)
(***************************************************************************)
\* C6 as stated: once a run with overwrite=false that was not cancelled is
\* over, where no scanned image had a caption file at the start and every
\* result of the Caption Client was a non-empty success text, every image's
\* caption file holds exactly the text the client produced for the image
\* and the run ended with "Processing Complete!".
C6_AllCaptionsPersisted ==
    ( /\ RunOver
      /\ runNo >= 1
      /\ dirExists
      /\ ~overwrite
      /\ ~stop_requested
      /\ ScanImages(startFs) # <<>>
      /\ \A n \in CaptionNames : ~startFs[n].exists
      /\ \A k \in Evs("ret") : ~IsFailure(trace[k].text) )
    =>
        /\ \A p \in ImageSet :
              /\ fs[TxtOf(p)].exists
              /\ \E k \in PathEvs("ret", p) : ReadText(fs[TxtOf(p)].data) = trace[k].text
        /\ EndedWith(<<"Processing Complete!">>)

(***************************************************************************)
(* C7                                                                      *)
(***************************************************************************)
\* C7: in a run with overwrite=false that follows an earlier run over the
\* same directory, the Caption Client is not called for any image whose
\* caption the earlier run persisted, every caption file that existed when
\* the run started keeps its content, and the client is called only for
\* images that had no caption file when their entry was reached.
C7_RepeatedRunIdempotent ==
    (runNo >= 2 /\ ~overwrite) =>
        /\ \A p \in prevWrote : PathEvs("call", p) = {}
        /\ \A n \in CaptionNames : startFs[n].exists => fs[n] = startFs[n]
        /\ \A k \in Evs("call") :
              \E r \in PathEvs("reached", trace[k].path) :
                  r < k /\ trace[r].val = 0

\* A finished second run, without overwrite, over a directory in which the
\* first run persisted a caption for one image and left another without:
\* the second run called the client.
C7_Witness ==
    /\ runNo = 2
    /\ ~overwrite
    /\ pc = "done"
    /\ prevWrote # {}
    /\ Evs("call") # {}
    /\ \E p \in prevWrote : PathEvs("image_finished", p) # {}

(***************************************************************************)
(* C8                                                                      *)
(***************************************************************************)
\* Position of an event within its entry.
Rank(ev) ==
    CASE ev = "progress_update"  -> 1
      [] ev = "image_processing" -> 2
      [] ev = "reached"          -> 3
      [] ev = "call"             -> 4
      [] ev = "post"             -> 5
      [] ev = "ret"              -> 6
      [] ev = "write"            -> 7
      [] ev = "image_finished"   -> 8
      [] ev = "finished"         -> 9

\* Requests sent to the server and not yet answered.
InFlight ==
    LET rets == Evs("ret")
    IN  {k \in Evs("post") :
            ~\E j \in rets : j > k /\ trace[j].path = trace[k].path}

\* The paths of the entries opened so far, in the order they were opened.
Opened ==
    LET opens == SelectSeq(trace, LAMBDA e : e.ev = "progress_update")
    IN  [n \in 1..Len(opens) |-> opens[n].path]

\* C8: the scan is in ascending path order and the entries are processed
\* one after the other in that order: the n-th entry opened is images[n];
\* an entry is opened by progress_update, then image_processing; its
\* Caption Client call lies between these and its image_finished; the next
\* entry is opened, or the terminal notification emitted, only after
\* image_finished; at most one request is in flight, and only while the
\* worker waits for it.
C8_SequentialSortedOrder ==
    /\ \A a \in 1..(Len(images) - 1) : StrLess(images[a], images[a + 1])
    /\ Len(Opened) <= Len(images)
    /\ Opened = SubSeq(images, 1, Len(Opened))
    /\ trace # <<>> => trace[1].ev \in {"progress_update", "finished"}
    /\ \A k \in 1..(Len(trace) - 1) :
          LET a == trace[k]
              b == trace[k + 1]
          IN  /\ a.ev # "finished"
              /\ (b.ev = "image_processing") <=> (a.ev = "progress_update")
              /\ (b.ev = "image_finished") => (a.ev \in {"reached", "ret", "write"})
              /\ IF b.ev \in {"progress_update", "finished"}
                 THEN a.ev = "image_finished"
                 ELSE a.path = b.path /\ Rank(a.ev) < Rank(b.ev)
    /\ LET inflight == InFlight
       IN  /\ Cardinality(inflight) <= 1
           /\ (inflight # {}) <=> (pc = "http")

\* A finished run that called the client for two images, the second one a
\* name that sorts first only by code point order.
C8_Witness ==
    /\ pc = "done"
    /\ Len(images) >= 2
    /\ Cardinality(Evs("post")) >= 2
    /\ Cardinality(Evs("image_finished")) >= 2

(***************************************************************************)
(* C9                                                                      *)
(***************************************************************************)
\* C9 as stated: when an existing caption is reused, image_finished is
\* emitted exactly once for the image, carrying exactly the content of the
\* caption file.
C9_ReusedCaptionEmitted ==
    \A k \in ReusedEntries :
        /\ \A j \in PathEvs("image_finished", trace[k].path) :
              trace[j].text = trace[k].text
        /\ (RunOver \/ k < Len(trace)) =>
              Cardinality(PathEvs("image_finished", trace[k].path)) = 1

(***************************************************************************)
(* C10                                                                     *)
(***************************************************************************)
\* C10 as stated: when a run over at least one image ends with
\* "Processing Complete!", the last progress value the run reported is 100,
\* and so is the progress bar once on_finished has run.
C10_FinalProgressIs100 ==
    (EndedWith(<<"Processing Complete!">>) /\ Len(images) >= 1) =>
        /\ \E k \in Evs("progress_update") :
              /\ \A j \in Evs("progress_update") : j <= k
              /\ trace[k].val = 100
        /\ sigq = <<>> => progress_bar = 100

(***************************************************************************)
(* C11                                                                     *)
(***************************************************************************)
\* C11 as stated: the percentage emitted for the entry at zero-based index
\* i of a scan of total images is floor(i * 100 / total); the first image
\* reports 0; and the values emitted in one run are non-decreasing.
C11_PercentIsFloor ==
    percent >= 0 =>
        /\ percent = ((i - 1) * 100) \div total
        /\ i = 1 => percent = 0
        /\ prevPercent <= percent

(***************************************************************************)
(* C12                                                                     *)
(***************************************************************************)
\* C12 as stated: every batch run emits exactly one terminal notification
\* and it is the run's last notification; its text is "No images found."
\* exactly when the scan is empty, "Processing Stopped." exactly when the
\* scan is non-empty and the stop flag was set, "Processing Complete!"
\* otherwise.
C12_OneTerminalNotification ==
    /\ \A k \in Evs("finished") : k = Len(trace)
    /\ RunOver =>
          /\ Cardinality(Evs("finished")) = 1
          /\ (LastEvent.text = <<"No images found.">>) <=> (Len(images) = 0)
          /\ LastEvent.text = <<"Processing Stopped.">> =>
                (Len(images) > 0 /\ stop_requested)
          /\ (Len(images) > 0 /\ ~stop_requested) =>
                LastEvent.text = <<"Processing Complete!">>
          /\ LastEvent.text \in { <<"No images found.">>, <<"Processing Stopped.">>,
                                  <<"Processing Complete!">> }

(***************************************************************************)
(* C13                                                                     *)
(***************************************************************************)
\* C13 as stated: a run whose scan yields no image (a directory without
\* eligible files, or a path that is no directory) emits nothing but the
\* terminal notification "No images found.", never calls the Caption
\* Client and writes no file.
C13_EmptyScanGoesToTerminal ==
    (runNo >= 1 /\ (~dirExists \/ ScanImages(startFs) = <<>>)) =>
        /\ fs = startFs
        /\ trace \in { <<>>, << Event("finished", <<>>, <<"No images found.">>, 0) >> }
        /\ RunOver => trace # <<>>

(***************************************************************************)
(* C14                                                                     *)
(***************************************************************************)
EXTENSIONS ==
    { <<"p", "n", "g">>, <<"j", "p", "g">>, <<"j", "p", "e", "g">>,
      <<"w", "e", "b", "p">> }

\* The name ends in a dot and one of the extensions, in any letter case.
HasImageExtension(name) ==
    \E e \in EXTENSIONS :
        /\ Len(name) > Len(e) + 1
        /\ name[Len(name) - Len(e)] = "."
        /\ Lower(SubSeq(name, Len(name) - Len(e) + 1, Len(name))) = e

Artifacts(path, f, th) ==
    {n \in {path, WithSuffix(path, TXT), FavName(path)} : f[n].exists}
        \cup {n \in {ThumbName(path)} : th[n].exists}

\* C15 as stated: a confirmed deletion, the file system refusing no removal,
\* removes every artifact of the entry (image, caption, favorite marker,
\* cached thumbnail) that existed, and an artifact that did not exist is
\* skipped without error and without preventing the removal of the others.
C15_DeletionRemovesAll ==
    (lastDelete.path # <<>> /\ lastDelete.failAt = "none" /\ dirWritable) =>
        /\ ~lastDelete.err
        /\ Artifacts(lastDelete.path, lastDelete.fsAfter, lastDelete.thumbsAfter) = {}

(***************************************************************************)
(* C16                                                                     *)
(***************************************************************************)
\* C16: when a removal fails during a deletion, the handler ends with the
\* status text "Error deleting: ..." and the application goes on; what was
\* removed before the failure stays removed, nothing is restored or
\* created, and every file still there has the content it had.
C16_FailedDeletionReported ==
    (lastDelete.path # <<>> /\ lastDelete.err) =>
        /\ StartsWith(lastDelete.status, <<"Error deleting: ">>)
        /\ \A n \in DOMAIN lastDelete.fsAfter :
              lastDelete.fsAfter[n].exists => lastDelete.fsAfter[n] = lastDelete.fs[n]
        /\ \A n \in DOMAIN lastDelete.thumbsAfter :
              lastDelete.thumbsAfter[n].exists =>
                  lastDelete.thumbsAfter[n] = lastDelete.thumbs[n]
        /\ \A n \in DOMAIN fs : n \notin Artifacts(lastDelete.path, lastDelete.fs, lastDelete.thumbs)
              => lastDelete.fsAfter[n] = lastDelete.fs[n]

\* A deletion that removed the image and then failed at the caption: the
\* image is gone, the caption and the thumbnail are still there, the status
\* line tells the error.
C16_Witness ==
    /\ lastDelete.path # <<>>
    /\ lastDelete.err
    /\ lastDelete.fs[lastDelete.path].exists
    /\ ~fs[lastDelete.path].exists
    /\ fs[WithSuffix(lastDelete.path, TXT)].exists
    /\ thumbs[ThumbName(lastDelete.path)].exists
    /\ status_label = DeleteErrorMessage
    /\ app = "running"

(***************************************************************************)
(* C17                                                                     *)
(***************************************************************************)
\* Images with two logged calls of ensure_thumbnail, the image file the
\* same at both.
CalledTwice ==
    {n \in ImageNames : Len(thumbLog[n]) = 2 /\ thumbLog[n][1].image = thumbLog[n][2].image}

\* C17 as stated: of two consecutive calls of ensure_thumbnail on an
\* unchanged image the second is a cache hit, performs no encoding and
\* returns the same path as the first.
C17_SecondCallIsCacheHit ==
    \A n \in CalledTwice :
        /\ thumbLog[n][2].kind = "cache"
        /\ ~thumbLog[n][2].opened
        /\ ~thumbLog[n][2].encoded
        /\ thumbLog[n][2].path = thumbLog[n][1].path

\* C17 amended: whenever the cache file exists, ensure_thumbnail returns it
\* without opening the source or encoding; of two consecutive calls on an
\* unchanged image the second returns the same path as the first, and it is
\* a cache hit that performs no encoding when the first call found or wrote
\* the cache file.
C17_CacheHitAfterCached ==
    /\ \A n \in ImageNames : \A k \in 1..Len(thumbLog[n]) :
          thumbLog[n][k].cached =>
              /\ thumbLog[n][k].kind = "cache"
              /\ ~thumbLog[n][k].opened
              /\ ~thumbLog[n][k].encoded
              /\ thumbLog[n][k].path = ThumbPath(n)
    /\ \A n \in CalledTwice :
          /\ thumbLog[n][2].path = thumbLog[n][1].path
          /\ thumbLog[n][1].kind \in {"cache", "written"} =>
                /\ thumbLog[n][2].kind = "cache"
                /\ ~thumbLog[n][2].encoded

\* The grid was loaded twice: one image's thumbnail was written by the
\* first call and found by the second, another image's could not be
\* produced by either call.
C17_Witness ==
    /\ \E n \in CalledTwice :
          thumbLog[n][1].kind = "written" /\ thumbLog[n][2].kind = "cache"
    /\ \E n \in CalledTwice :
          thumbLog[n][1].kind = "fallback" /\ thumbLog[n][2].kind = "fallback"

(***************************************************************************)
(* C18                                                                     *)
(***************************************************************************)
\* C18 as stated: ensure_thumbnail never raises to its caller; when the
\* thumbnail cannot be produced it returns the source path, and it returns
\* the cache path only when it found or wrote the cache file.
C18_ThumbnailNeverRaises ==
    \A n \in ImageNames : \A k \in 1..Len(thumbLog[n]) :
        LET c == thumbLog[n][k] IN
        /\ c.kind # "raised"
        /\ c.kind = "fallback" => c.path = n
        /\ c.path = ThumbPath(n) => c.kind \in {"cache", "written"}

(***************************************************************************)
(* C19                                                                     *)
(***************************************************************************)
ScanThreads == strayLoaders + (IF LoaderRunning THEN 1 ELSE 0)

WorkerThreads == strayWorkers + (IF WorkerRunning THEN 1 ELSE 0)

\* C19: at every moment at most one scan thread and at most one batch
\* worker thread are running; a scan still in flight is terminated before
\* the next one is started, and a batch worker runs only while a batch is
\* in progress.
C19_OneThreadPerRole ==
    /\ ScanThreads <= 1
    /\ WorkerThreads <= 1
    /\ strayLoaders = 0
    /\ strayWorkers = 0
    /\ WorkerRunning => is_processing

\* A second scan is running, started while the first one, which had made
\* its scan and not yet emitted, was in flight; a batch worker is running
\* beside it.
C19_Witness ==
    /\ loader_pc = "scan"
    /\ Len(scans) = 1
    /\ scans[1].emits = 0
    /\ WorkerRunning
    /\ runNo = 2

(***************************************************************************)
(* C20                                                                     *)
(***************************************************************************)
\* The grid holds an item for every image of the scan it is populated
\* from, the queue is empty and the timer stopped.
GridComplete ==
    /\ loading_queue = <<>>
    /\ ~load_timer
    /\ \A k \in 1..Len(gridFrom) : gridFrom[k] \in DOMAIN image_items

\* C20 as stated: a timer tick takes at most 3 entries off the head of the
\* queue, in order; while a load is in progress the number of grid items
\* plus the number of queued entries is the size of the scan result; and,
\* if no new scan is started, the queue eventually empties, every scanned
\* image has its grid item and the timer stops.
C20_IncrementalLoadCompletes ==
    /\ [](/\ Len(lastTick.took) <= BATCH_SIZE
          /\ Len(lastTick.took) <= Len(lastTick.before)
          /\ lastTick.took = SubSeq(lastTick.before, 1, Len(lastTick.took)))
    /\ [](load_timer =>
            Cardinality(DOMAIN image_items) + Len(loading_queue) = Len(gridFrom))
    /\ \A n \in 0..MaxLoads :
          (load_timer /\ loads = n) ~> (GridComplete \/ loads # n)

(***************************************************************************)
(* C21                                                                     *)
(***************************************************************************)
\* The Caption Client has returned from a request that was sent.
Answered ==
    /\ callIn.fn \in {"generate_caption_api", "generate_caption"}
    /\ callOut # NoCall
    /\ callOut.sent

\* The server answered 2xx with a "response" that is missing, empty or
\* only whitespace.
BlankAnswer ==
    /\ callIn.reply.kind \in {"ok", "missing"}
    /\ \A k \in 1..Len(callIn.reply.body) : IsSpace(callIn.reply.body[k])

\* C21 as stated: when the endpoint answers successfully and the response
\* field is missing, empty or only whitespace, the Caption Client returns a
\* failure value, never an empty text.
C21_EmptyResponseIsFailure ==
    (Answered /\ BlankAnswer) =>
        /\ callOut.value # <<>>
        /\ StartsWith(callOut.value, ERROR_PREFIX)

(***************************************************************************)
(* C22                                                                     *)
(***************************************************************************)
\* C22 as stated: the Caption Client always returns a value; an unreadable
\* image yields the encoding-failure value and no request is sent; a
\* non-2xx status, a network failure or a malformed response yields a
\* failure value with an error text; every value that is no caption carries
\* the "[ERROR]" prefix.
C22_FailureValuesPrefixed ==
    (callIn.fn \in {"generate_caption_api", "generate_caption"} /\ callOut # NoCall) =>
        /\ ~callIn.openOk => (callOut.value = ENCODING_FAILED /\ ~callOut.sent)
        /\ (callOut.sent /\ callIn.reply.kind # "ok") =>
              /\ StartsWith(callOut.value, ERROR_PREFIX)
              /\ Len(callOut.value) > Len(ERROR_PREFIX)
        /\ (~callOut.sent \/ callIn.reply.kind # "ok" \/ BlankAnswer) =>
              StartsWith(callOut.value, ERROR_PREFIX)
        /\ (callOut.sent /\ callIn.reply.kind = "ok" /\ ~BlankAnswer) =>
              callOut.value = Strip(callIn.reply.body)

(***************************************************************************)
(* C23                                                                     *)
(***************************************************************************)
\* extract_comfy_prompt has returned.
Extracted == callIn.fn = "extract_comfy_prompt" /\ callOut # NoCall

\* The image opens and its structured field is a workflow whose entries are
\* all node objects.
WorkflowParses ==
    /\ callIn.meta.open
    /\ callIn.meta.prompt.kind = "workflow"
    /\ \A j \in 1..Len(callIn.meta.prompt.nodes) : callIn.meta.prompt.nodes[j].dict

\* The strings collected from the text-encoding nodes, as a set.
Collected ==
    LET prompts == Prompts(callIn.meta.prompt.nodes)
    IN  {prompts[j] : j \in 1..Len(prompts)}

\* C23: when the structured workflow field parses and strings are collected
\* from its text-encoding nodes, the result is the distinct collected
\* strings, each exactly once, joined by newlines, and no string comes
\* before a strictly longer one.
C23_DistinctLongestFirst ==
    (Extracted /\ WorkflowParses /\ Collected # {}) =>
        \E l \in [1..Cardinality(Collected) -> Collected] :
            /\ \A a, b \in 1..Len(l) : l[a] = l[b] => a = b
            /\ \A a, b \in 1..Len(l) : a < b => Len(l[a]) >= Len(l[b])
            /\ ~callOut.isNone
            /\ callOut.text = Join(<<"\n">>, l)

\* Several text-encoding nodes gave a string more than once and strings of
\* different lengths.
C23_Witness ==
    /\ Extracted /\ WorkflowParses
    /\ Len(Prompts(callIn.meta.prompt.nodes)) > Cardinality(Collected)
    /\ \E s, t \in Collected : Len(s) < Len(t)
    /\ Cardinality({j \in 1..Len(callIn.meta.prompt.nodes) :
                      NodePrompts(callIn.meta.prompt.nodes[j]) # <<>>}) >= 2

(***************************************************************************)
(* C24                                                                     *)
(***************************************************************************)
\* The structured field yields a result.
StructuredYields ==
    /\ callIn.meta.prompt.kind = "workflow"
    /\ \A j \in 1..Len(callIn.meta.prompt.nodes) : callIn.meta.prompt.nodes[j].dict
    /\ Collected # {}

\* The structured field is absent or fails to parse.
StructuredAbsentOrFails ==
    \/ callIn.meta.prompt.kind \in {"absent", "unparsable"}
    \/ \E j \in 1..Len(callIn.meta.prompt.nodes) : ~callIn.meta.prompt.nodes[j].dict

\* text is the first line of s, trimmed.
IsTrimmedFirstLine(text, s) ==
    \E k \in 0..Len(s) :
        /\ k = Len(s) \/ s[k + 1] = "\n"
        /\ \A j \in 1..k : s[j] # "\n"
        /\ text = Strip(SubSeq(s, 1, k))

\* The result is that of a fallback: of "parameters", or of "Description".
FromParameters ==
    /\ ~callOut.isNone /\ ~StructuredYields
    /\ callIn.meta.parameters.present
    /\ IsTrimmedFirstLine(callOut.text, callIn.meta.parameters.s)

FromDescription ==
    /\ ~callOut.isNone /\ ~StructuredYields
    /\ ~callIn.meta.parameters.present
    /\ callIn.meta.Description.present
    /\ callOut.text = Strip(callIn.meta.Description.s)

\* The order of the sources, common to C24 as stated and as amended: a
\* structured result goes before both fallbacks, "parameters" (first line)
\* before "Description" (trimmed), and nothing is returned when none of the
\* three is present.
SourcesInOrder ==
    /\ StructuredYields =>
          /\ ~callOut.isNone
          /\ \E l \in [1..Cardinality(Collected) -> Collected] :
                callOut.text = Join(<<"\n">>, l)
    /\ (~StructuredYields /\ callIn.meta.parameters.present) => FromParameters
    /\ (~StructuredYields /\ ~callIn.meta.parameters.present
          /\ callIn.meta.Description.present) => FromDescription
    /\ (callIn.meta.prompt.kind = "absent" /\ ~callIn.meta.parameters.present
          /\ ~callIn.meta.Description.present) => callOut.isNone

\* C24 as stated: the fallbacks are used in the order "parameters" (first
\* line), "Description" (trimmed), and only when the structured field is
\* absent or fails to parse; nothing is returned when none of the three
\* sources is present; a structured result goes before both fallbacks.
C24_FallbackOnlyIfAbsentOrUnparsable ==
    (Extracted /\ callIn.meta.open) =>
        /\ SourcesInOrder
        /\ (FromParameters \/ FromDescription) => StructuredAbsentOrFails

\* C24 amended: as stated, but a fallback is also used when the structured
\* field parses and no string is collected from it.
C24_FallbackIfNoStructuredResult ==
    (Extracted /\ callIn.meta.open) =>
        /\ SourcesInOrder
        /\ (FromParameters \/ FromDescription) =>
              (StructuredAbsentOrFails \/ (WorkflowParses /\ Collected = {}))
        /\ (~StructuredYields /\ ~callIn.meta.parameters.present
              /\ ~callIn.meta.Description.present) => callOut.isNone

\* A workflow that parsed and gave no string, and the first line of
\* "parameters" returned while "Description" is there too.
C24_Witness ==
    /\ Extracted /\ WorkflowParses /\ Collected = {}
    /\ callIn.meta.prompt.nodes # <<>>
    /\ callIn.meta.Description.present
    /\ FromParameters
    /\ callOut.text = <<"p">>

(***************************************************************************)
(* C25                                                                     *)
(***************************************************************************)
\* C25 as stated: when neither or both of --queue and --directory are
\* given, main prints the usage and exits with a non-zero status, and
\* process_directory is called for no directory.
C25_ExactlyOneOption ==
    (/\ callIn.fn = "main" /\ callOut # NoCall
     /\ callIn.args.system # "unreadable"
     /\ callIn.args.queue.given = callIn.args.directory.given) =>
        /\ callOut.usage
        /\ callOut.status # 0
        /\ callOut.processed = <<>>

(***************************************************************************)
(* C26                                                                     *)
(***************************************************************************)
\* C26 as stated: whatever batch runs, image_finished deliveries, metadata
\* extractions and saves have happened, no caption file on disk begins with
\* "[ERROR]".
C26_NoFailureTextOnDisk ==
    \A n \in CaptionNames : fs[n].exists => ~StartsWith(fs[n].data, ERROR_PREFIX)

(***************************************************************************)
(* C27                                                                     *)
(***************************************************************************)
\* The UI is idle: a batch can be started.
UiIdle == ~is_processing /\ btn_enabled /\ btn_text = "Start Captioning"

\* C27 as stated: is_processing is true while a worker runs, and after
\* every start of a batch the terminal notification is eventually delivered
\* and the UI is idle again.
C27_ProcessingEndsIdle ==
    /\ [](WorkerRunning => is_processing)
    /\ is_processing ~> UiIdle

(***************************************************************************)
(* C28                                                                     *)
(***************************************************************************)
\* C28 as stated: a deletion of one image leaves the image file, the
\* caption file, the favorite marker and the thumbnail of every other image
\* of the directory as they were.
C28_DeletionLeavesOthers ==
    lastDelete.path # <<>> =>
        \A B \in ImageNames \ {lastDelete.path} :
            lastDelete.fs[B].exists =>
                /\ lastDelete.fsAfter[B] = lastDelete.fs[B]
                /\ lastDelete.fsAfter[WithSuffix(B, TXT)] = lastDelete.fs[WithSuffix(B, TXT)]
                /\ lastDelete.fsAfter[FavName(B)] = lastDelete.fs[FavName(B)]
                /\ lastDelete.thumbsAfter[ThumbName(B)] = lastDelete.thumbs[ThumbName(B)]

(***************************************************************************)
(* C29                                                                     *)
(***************************************************************************)
\* Something has been placed into the grid or its queue since the last run
\* of load_images_to_grid, which empties both and stops the timer.
Populating == loading_queue # <<>> \/ image_items # <<>> \/ load_timer

\* The scan that the last run of load_images_to_grid started has emitted
\* its result, and the grid is populated from that result.
FromLatestScan ==
    \E k \in 1..Len(scans) :
        /\ scans[k].load = loads
        /\ scans[k].emits >= 1
        /\ gridFrom = scans[k].out

\* Nothing is in flight: no scan runs, no result is queued, no timer ticks.
GridSettled ==
    /\ app = "running"
    /\ ~LoaderRunning
    /\ loadq = <<>>
    /\ ~load_timer

\* C29 as stated: once load_images_to_grid has run, what is placed into
\* loading_queue and image_items comes from the scan it started and from no
\* earlier one (from none when it cleared the grid for an invalid path), and
\* when loading has settled image_items holds exactly the entries of that
\* scan.
C29_OnlyLatestScan ==
    /\ Populating => FromLatestScan
    /\ (GridSettled /\ loads > 0) =>
          IF dir_input = <<>> THEN image_items = <<>>
          ELSE /\ FromLatestScan
               /\ DOMAIN image_items = {gridFrom[k] : k \in 1..Len(gridFrom)}

(***************************************************************************)
(* C30                                                                     *)
(***************************************************************************)
\* image_finished was emitted for every image of the scan.
AllFinished == \A p \in ImageSet : PathEvs("image_finished", p) # {}

\* C30 as stated: a run ends with "Processing Stopped." only if some
\* scanned image got no image_finished, and with "Processing Complete!"
\* only if every scanned image got one.
C30_StoppedOnlyIfUnprocessed ==
    /\ EndedWith(<<"Processing Stopped.">>) => ~AllFinished
    /\ EndedWith(<<"Processing Complete!">>) => AllFinished

\* C30 amended: a run ends with "Processing Stopped." only if a stop was
\* requested during the run (the stop flag is set), and with "Processing
\* Complete!" only if every scanned image got an image_finished.
C30_StoppedOnlyIfRequested ==
    /\ EndedWith(<<"Processing Stopped.">>) => (stop_requested /\ Len(images) > 0)
    /\ EndedWith(<<"Processing Complete!">>) => AllFinished

\* A stop requested during the last entry: every image got its
\* image_finished and the run ended with "Processing Stopped.".
C30_Witness ==
    /\ EndedWith(<<"Processing Stopped.">>)
    /\ Len(images) >= 1
    /\ AllFinished
    /\ stopAt = Len(images) - 1

====
